---- MODULE Spec2Model ----
(***************************************************************************)
(* Transcript acquisition pipeline of the YouTube transcript generator:    *)
(* transcript_extractor.py (resolver, strategy enumeration, per-strategy   *)
(* fetch, subtitle parsers, secondary backend) and the /extract route of   *)
(* app.py.                                                                 *)
(*                                                                         *)
(* Text is modelled at two granularities.  A URL is a sequence of          *)
(* one-character strings, so that the regular expressions of the resolver  *)
(* are evaluated position by position.  A subtitle payload is a sequence   *)
(* of lines, a line a sequence of tokens; the string a line stands for is  *)
(* the concatenation of its tokens, " " being the space token.  The token  *)
(* alphabet is chosen so that none of the markers the code searches for    *)
(* ('WEBVTT', '-->', '<text', 'start=', '<', '>') straddles two tokens.    *)
(***************************************************************************)
EXTENDS Integers, Sequences, FiniteSets, TLC

None == "None"

(***************************************************************************)
(* Generic sequence helpers                                                *)
(***************************************************************************)
RECURSIVE Flatten(_)
Flatten(ss) == IF ss = <<>> THEN <<>> ELSE Head(ss) \o Flatten(Tail(ss))

(***************************************************************************)
(* Token alphabet of subtitle payloads                                     *)
(***************************************************************************)
\* whitespace tokens: str.strip() and str.split() treat both alike
IsSpace(t) == t \in {" ", "\n"}

\* start attributes written as decimal literals of seconds with three
\* decimals: the values, in milliseconds, around the second, minute and hour
\* boundaries, up to hours of three digits
ClockHours == {0, 1, 9, 10, 99, 100}

ClockMinutes == {0, 1, 59}

ClockSeconds == {0, 9, 59}

ClockThousandths == {0, 5, 999}

StartMillis ==
    {h * 3600000 + m * 60000 + sec * 1000 + ms :
        h \in ClockHours, m \in ClockMinutes, sec \in ClockSeconds,
        ms \in ClockThousandths}

\* the literal of a value, "3.005" for 3005
StartLiteral(millis) ==
    ToString(millis \div 1000) \o "."
        \o (IF millis % 1000 < 10 THEN "00" ELSE IF millis % 1000 < 100 THEN "0" ELSE "")
        \o ToString(millis % 1000)

\* the opening tag of a text element with that start attribute
TextOpen(literal) == "<text start=\"" \o literal \o "\">"

StartTable ==
    {[millis |-> m, literal |-> StartLiteral(m), tag |-> TextOpen(StartLiteral(m))] :
        m \in StartMillis}

StartTags == {r.tag : r \in StartTable}

\* tokens whose text contains the substring '-->'
HasArrow(t) == t \in {"-->", "a-->b"}

\* tokens whose text contains the substring 'WEBVTT'
HasWebvtt(t) == t \in {"WEBVTT"}

\* tokens whose text contains the substring '<text'
HasTextOpen(t) ==
    \/ t \in {"<text start=\"12.5\">", "<text start=\"2\">", "<text start=\"abc\">", "<text>"}
    \/ t \in StartTags

\* tokens whose text contains the substring 'start='
HasStartEq(t) ==
    \/ t \in {"<text start=\"12.5\">", "<text start=\"2\">", "<text start=\"abc\">",
              "<timedtext start=\"0\">", "align:start=0"}
    \/ t \in StartTags

\* tokens matched as a whole by the regular expression <[^>]+>
IsTag(t) ==
    \/ t \in {"<c>", "</c>", "<00:00:01.500>",
              "<text start=\"12.5\">", "<text start=\"2\">", "<text start=\"abc\">", "<text>",
              "</text>", "<transcript>", "</transcript>", "<timedtext start=\"0\">",
              "</timedtext>"}
    \/ t \in StartTags

\* XML view of a token: opening tag, closing tag, or character data
XmlOpenName(t) ==
    CASE t \in {"<text start=\"12.5\">", "<text start=\"2\">", "<text start=\"abc\">", "<text>"}
             -> "text"
      [] t \in StartTags -> "text"
      [] t = "<transcript>" -> "transcript"
      [] t = "<timedtext start=\"0\">" -> "timedtext"
      [] t = "<c>" -> "c"
      [] OTHER -> None

XmlCloseName(t) ==
    CASE t = "</text>" -> "text"
      [] t = "</transcript>" -> "transcript"
      [] t = "</timedtext>" -> "timedtext"
      [] t = "</c>" -> "c"
      [] OTHER -> None

\* a '<...>' token that is no well-formed XML tag
XmlBad(t) == t \in {"<00:00:01.500>"}

\* value of the start attribute of an opening tag; None when the tag has none
XmlStartAttr(t) ==
    CASE t = "<text start=\"12.5\">" -> "12.5"
      [] t = "<text start=\"2\">" -> "2"
      [] t = "<text start=\"abc\">" -> "abc"
      [] t = "<timedtext start=\"0\">" -> "0"
      [] t \in StartTags -> (CHOOSE r \in StartTable : r.tag = t).literal
      [] OTHER -> None

\* float(s) in milliseconds; -1 stands for ValueError
FloatMillis(s) ==
    CASE s = "12.5" -> 12500
      [] s = "2" -> 2000
      [] s = "0" -> 0
      [] \E r \in StartTable : r.literal = s -> (CHOOSE r \in StartTable : r.literal = s).millis
      [] OTHER -> -1

(***************************************************************************)
(* String operations on token sequences                                    *)
(***************************************************************************)
RECURSIVE LStrip(_)
LStrip(s) == IF s # <<>> /\ IsSpace(Head(s)) THEN LStrip(Tail(s)) ELSE s

RECURSIVE RStrip(_)
RStrip(s) ==
    IF s # <<>> /\ IsSpace(s[Len(s)]) THEN RStrip(SubSeq(s, 1, Len(s) - 1)) ELSE s

\* str.strip()
Strip(s) == RStrip(LStrip(s))

\* the tokens of one line, of a payload
LineTokens(line) == {line[j] : j \in 1..Len(line)}

ContentTokens(content) == UNION {LineTokens(content[i]) : i \in 1..Len(content)}

\* line.split(' --> '): the parts between non-overlapping occurrences of the
\* three tokens " ", "-->", " ", scanned left to right
RECURSIVE SplitArrow(_, _)
SplitArrow(s, cur) ==
    IF s = <<>> THEN <<cur>>
    ELSE IF Len(s) >= 3 /\ s[1] = " " /\ s[2] = "-->" /\ s[3] = " "
         THEN <<cur>> \o SplitArrow(SubSeq(s, 4, Len(s)), <<>>)
         ELSE SplitArrow(Tail(s), Append(cur, Head(s)))

\* re.sub(r'<[^>]+>', '', text_line)
RECURSIVE RemoveTags(_)
RemoveTags(s) ==
    IF s = <<>> THEN <<>>
    ELSE IF IsTag(Head(s)) THEN RemoveTags(Tail(s))
         ELSE <<Head(s)>> \o RemoveTags(Tail(s))

\* ' '.join(text_lines)
RECURSIVE JoinSpace(_)
JoinSpace(ls) ==
    IF ls = <<>> THEN <<>>
    ELSE IF Len(ls) = 1 THEN ls[1]
         ELSE ls[1] \o <<" ">> \o JoinSpace(Tail(ls))

(***************************************************************************)
(* parse_vtt_content                                                       *)
(***************************************************************************)
\* the inner while loop: index of the first line at or after i that is blank
\* (or Len + 1), the cue's text lines being those in between
RECURSIVE CueTextEnd(_, _)
CueTextEnd(lines, i) ==
    IF i <= Len(lines) /\ Strip(lines[i]) # <<>> THEN CueTextEnd(lines, i + 1) ELSE i

\* faulty variant: the markup tags are left in the text
RECURSIVE CueTextLinesKeepTags(_, _, _)
CueTextLinesKeepTags(lines, i, j) ==
    IF i >= j THEN <<>>
    ELSE LET text_line == Strip(lines[i])
         IN  (IF text_line # <<>> THEN <<text_line>> ELSE <<>>)
                 \o CueTextLinesKeepTags(lines, i + 1, j)

RECURSIVE CueTextLines(_, _, _)
CueTextLines(lines, i, j) ==
    IF i >= j THEN <<>>
    ELSE LET text_line == RemoveTags(Strip(lines[i]))
         IN  (IF text_line # <<>> THEN <<text_line>> ELSE <<>>)
                 \o CueTextLines(lines, i + 1, j)

\* the timestamp line raises (IndexError) when ' --> ' does not split it in
\* two or when nothing but whitespace follows the separator
CueLineRaises(line) ==
    LET time_parts == SplitArrow(line, <<>>)
    IN  Len(time_parts) < 2 \/ Strip(time_parts[2]) = <<>>

RECURSIVE VttScan(_, _, _)
VttScan(lines, i, segments) ==
    IF i > Len(lines) THEN segments
    ELSE LET line == Strip(lines[i])
         IN  IF ~(\E t \in LineTokens(line) : HasArrow(t)) THEN VttScan(lines, i + 1, segments)
             ELSE IF CueLineRaises(line) THEN VttScan(lines, i + 1, segments)
             ELSE LET start_time == Strip(SplitArrow(line, <<>>)[1])
                      j == CueTextEnd(lines, i + 1)
                      text_lines == CueTextLines(lines, i + 1, j)
                  IN  VttScan(lines, j + 1,
                              IF text_lines # <<>>
                              THEN Append(segments, [timestamp |-> start_time,
                                                     text |-> JoinSpace(text_lines)])
                              ELSE segments)

parse_vtt_content(content) == VttScan(content, 1, <<>>)

(***************************************************************************)
(* parse_srv_content and seconds_to_timestamp                              *)
(***************************************************************************)
Pad(n, width) ==
    LET str == ToString(n)
    IN  IF Len(str) >= width THEN str
        ELSE IF Len(str) = width - 1 THEN "0" \o str
        ELSE "00" \o str

\* faulty variant: the minutes are not reduced modulo the hour
seconds_to_timestamp_total_minutes(millis) ==
    LET hours == millis \div 3600000
        minutes == millis \div 60000
        secs == millis % 60000
    IN  Pad(hours, 2) \o ":" \o Pad(minutes, 2) \o ":"
            \o Pad(secs \div 1000, 2) \o "." \o Pad(secs % 1000, 3)

\* seconds given in milliseconds; the result is one token HH:MM:SS.mmm
seconds_to_timestamp(millis) ==
    LET hours == millis \div 3600000
        minutes == (millis % 3600000) \div 60000
        secs == millis % 60000
    IN  Pad(hours, 2) \o ":" \o Pad(minutes, 2) \o ":"
            \o Pad(secs \div 1000, 2) \o "." \o Pad(secs % 1000, 3)

\* the payload as one token string, lines separated by "\n"
RECURSIVE JoinLines(_)
JoinLines(lines) ==
    IF lines = <<>> THEN <<>>
    ELSE IF Len(lines) = 1 THEN lines[1]
         ELSE lines[1] \o <<"\n">> \o JoinLines(Tail(lines))

\* ET.fromstring followed by root.findall('.//text'): one pass over the tokens
\* keeping the stack of open elements; elems collects, in document order, the
\* 'text' elements below the root with their start attribute and their .text
\* (the character data before their first child); cur is the element whose
\* .text is being collected, 0 when none
RECURSIVE XmlScan(_, _, _, _, _)
XmlScan(toks, stack, elems, cur, rootDone) ==
    IF toks = <<>> THEN [err |-> ~rootDone, elems |-> elems]
    ELSE LET t == Head(toks)
             rest == Tail(toks)
         IN  IF XmlBad(t) THEN [err |-> TRUE, elems |-> <<>>]
             ELSE IF XmlOpenName(t) # None THEN
                 IF rootDone THEN [err |-> TRUE, elems |-> <<>>]
                 ELSE IF stack = <<>> THEN XmlScan(rest, <<XmlOpenName(t)>>, elems, 0, FALSE)
                 ELSE IF XmlOpenName(t) = "text"
                 THEN XmlScan(rest, Append(stack, "text"),
                              Append(elems, [start |-> XmlStartAttr(t), text |-> <<>>]),
                              Len(elems) + 1, FALSE)
                 ELSE XmlScan(rest, Append(stack, XmlOpenName(t)), elems, 0, FALSE)
             ELSE IF XmlCloseName(t) # None THEN
                 IF stack = <<>> \/ stack[Len(stack)] # XmlCloseName(t)
                 THEN [err |-> TRUE, elems |-> <<>>]
                 ELSE XmlScan(rest, SubSeq(stack, 1, Len(stack) - 1), elems, 0,
                              Len(stack) = 1)
             ELSE IF stack = <<>> THEN
                 IF IsSpace(t) THEN XmlScan(rest, stack, elems, cur, rootDone)
                 ELSE [err |-> TRUE, elems |-> <<>>]
             ELSE IF cur # 0
                 THEN XmlScan(rest, stack,
                              [elems EXCEPT ![cur].text = Append(@, t)], cur, rootDone)
                 ELSE XmlScan(rest, stack, elems, cur, rootDone)

\* faulty variant: a start that is no number ends the loop
RECURSIVE SrvSegmentsStopAtBad(_)
SrvSegmentsStopAtBad(elems) ==
    IF elems = <<>> THEN <<>>
    ELSE LET text_elem == Head(elems)
             start_time == IF text_elem.start = None THEN "0" ELSE text_elem.start
             start_millis == FloatMillis(start_time)
             text_content == text_elem.text
         IN  IF start_millis < 0 THEN <<>>
             ELSE (IF Strip(text_content) # <<>>
                   THEN <<[timestamp |-> <<seconds_to_timestamp(start_millis)>>,
                           text |-> Strip(text_content)]>>
                   ELSE <<>>) \o SrvSegmentsStopAtBad(Tail(elems))

\* the loop over root.findall('.//text'), lines 429-445
RECURSIVE SrvSegments(_)
SrvSegments(elems) ==
    IF elems = <<>> THEN <<>>
    ELSE LET text_elem == Head(elems)
             start_time == IF text_elem.start = None THEN "0" ELSE text_elem.start
             start_millis == FloatMillis(start_time)
             text_content == text_elem.text
         IN  (IF start_millis >= 0 /\ Strip(text_content) # <<>>
              THEN <<[timestamp |-> <<seconds_to_timestamp(start_millis)>>,
                      text |-> Strip(text_content)]>>
              ELSE <<>>) \o SrvSegments(Tail(elems))

parse_srv_content(content) ==
    LET tree == XmlScan(JoinLines(content), <<>>, <<>>, 0, FALSE)
    IN  IF tree.err THEN <<>> ELSE SrvSegments(tree.elems)

(***************************************************************************)
(* parse_subtitle_content                                                  *)
(***************************************************************************)
\* the 'Clean and validate segments' loop
RECURSIVE CleanSegments(_)
CleanSegments(segments) ==
    IF segments = <<>> THEN <<>>
    ELSE (IF Strip(Head(segments).text) # <<>> THEN <<Head(segments)>> ELSE <<>>)
             \o CleanSegments(Tail(segments))

\* faulty variant: the timed-text test comes first
SubtitleFormatSrvFirst(content) ==
    IF /\ \E t \in ContentTokens(content) : HasTextOpen(t)
       /\ \E t \in ContentTokens(content) : HasStartEq(t)
    THEN "srv"
    ELSE IF \E t \in ContentTokens(content) : HasWebvtt(t) \/ HasArrow(t) THEN "vtt"
    ELSE "unknown"

\* which branch of the dispatch a payload takes
SubtitleFormat(content) ==
    IF \E t \in ContentTokens(content) : HasWebvtt(t) \/ HasArrow(t) THEN "vtt"
    ELSE IF /\ \E t \in ContentTokens(content) : HasTextOpen(t)
            /\ \E t \in ContentTokens(content) : HasStartEq(t)
         THEN "srv"
    ELSE "unknown"

parse_subtitle_content(content) ==
    CASE SubtitleFormat(content) = "vtt" -> CleanSegments(parse_vtt_content(content))
      [] SubtitleFormat(content) = "srv" -> CleanSegments(parse_srv_content(content))
      [] OTHER -> <<>>

(***************************************************************************)
(* get_youtube_video_id                                                    *)
(*                                                                         *)
(* A URL is a sequence of one-character strings.  NoId (the empty          *)
(* sequence) stands for the None the resolver returns.                     *)
(***************************************************************************)
NoId == <<>>

\* length of the identifier the patterns capture: {11}
IdLen == 11

\* the character class [0-9A-Za-z_-]
IdChars ==
    {"0", "1", "2", "3", "4", "5", "6", "7", "8", "9", "A", "B", "C", "D", "E", "F",
     "G", "H", "I", "J", "K", "L", "M", "N", "O", "P", "Q", "R", "S", "T", "U", "V",
     "W", "X", "Y", "Z", "a", "b", "c", "d", "e", "f", "g", "h", "i", "j", "k", "l",
     "m", "n", "o", "p", "q", "r", "s", "t", "u", "v", "w", "x", "y", "z", "_", "-"}

LitVEq == <<"v", "=">>
LitYoutuBe == <<"y", "o", "u", "t", "u", ".", "b", "e", "/">>
LitShorts == <<"y", "o", "u", "t", "u", "b", "e", ".", "c", "o", "m", "/", "s", "h", "o", "r", "t", "s", "/">>
LitEmbed == <<"y", "o", "u", "t", "u", "b", "e", ".", "c", "o", "m", "/", "e", "m", "b", "e", "d", "/">>
LitV == <<"y", "o", "u", "t", "u", "b", "e", ".", "c", "o", "m", "/", "v", "/">>
LitWatch == <<"y", "o", "u", "t", "u", "b", "e", ".", "c", "o", "m", "/", "w", "a", "t", "c", "h", "?">>
LitYoutubeCom == <<"y", "o", "u", "t", "u", "b", "e", ".", "c", "o", "m">>
LitYoutuBeHost == <<"y", "o", "u", "t", "u", ".", "b", "e">>

\* the literal lit occurs in url at position i
LitAt(url, i, lit) ==
    /\ i >= 1
    /\ i + Len(lit) - 1 <= Len(url)
    /\ SubSeq(url, i, i + Len(lit) - 1) = lit

\* ([0-9A-Za-z_-]{11}) matches at position i
IdAt(url, i) ==
    /\ i >= 1
    /\ i + IdLen - 1 <= Len(url)
    /\ \A k \in i..(i + IdLen - 1) : url[k] \in IdChars

\* 'lit in url'
Contains(url, lit) == \E i \in 1..Len(url) : LitAt(url, i, lit)

\* positions where a pattern of the form (?:lit1|lit2|...)(id) matches
LitIdMatches(url, lits) ==
    {i \in 1..Len(url) : \E lit \in lits : LitAt(url, i, lit) /\ IdAt(url, i + Len(lit))}

\* re.search of such a pattern: the group captured by the leftmost match (at
\* one position at most one of the literals matches: they differ in a
\* character they both have), NoId when there is no match
SearchLitId(url, lits) ==
    LET ms == LitIdMatches(url, lits)
    IN  IF ms = {} THEN NoId
        ELSE LET i == CHOOSE m \in ms : \A n \in ms : m <= n
                 lit == CHOOSE l \in lits : LitAt(url, i, l) /\ IdAt(url, i + Len(l))
             IN  SubSeq(url, i + Len(lit), i + Len(lit) + IdLen - 1)

\* re.search of youtube\.com/watch\?.*v=(id): leftmost 'youtube.com/watch?',
\* then, .* being greedy, the rightmost 'v=' after it that is followed by an id
SearchWatch(url) ==
    LET ws == {i \in 1..Len(url) :
                  /\ LitAt(url, i, LitWatch)
                  /\ \E j \in (i + Len(LitWatch))..Len(url) :
                         LitAt(url, j, LitVEq) /\ IdAt(url, j + Len(LitVEq))}
    IN  IF ws = {} THEN NoId
        ELSE LET i == CHOOSE m \in ws : \A n \in ws : m <= n
                 vs == {j \in (i + Len(LitWatch))..Len(url) :
                           LitAt(url, j, LitVEq) /\ IdAt(url, j + Len(LitVEq))}
                 j == CHOOSE m \in vs : \A n \in vs : m >= n
             IN  SubSeq(url, j + Len(LitVEq), j + Len(LitVEq) + IdLen - 1)

\* faulty variant: the first pattern lacks the /shorts/ alternative
PatternResultsNoShorts(url) ==
    << SearchLitId(url, {LitVEq, LitYoutuBe}),
       SearchLitId(url, {LitEmbed}),
       SearchLitId(url, {LitV}),
       SearchWatch(url) >>

\* the list 'patterns', in order; each entry is the result of re.search
PatternResults(url) ==
    << SearchLitId(url, {LitVEq, LitYoutuBe, LitShorts}),
       SearchLitId(url, {LitEmbed}),
       SearchLitId(url, {LitV}),
       SearchWatch(url) >>

\* the loop over the patterns: the group of the first pattern that matches
FirstMatch(res) ==
    LET hits == {p \in 1..Len(res) : res[p] # NoId}
    IN  IF hits = {} THEN NoId
        ELSE res[CHOOSE p \in hits : \A q \in hits : p <= q]

\* the searches are made once: res ranges over the one value of PatternResults
get_youtube_video_id(url) ==
    IF url = <<>> THEN NoId
    ELSE CHOOSE id \in {FirstMatch(res) : res \in {PatternResults(url)}} : TRUE

(***************************************************************************)
(* Optional values                                                         *)
(*                                                                         *)
(* A title is a string, None the missing title.  An optional segment list  *)
(* is a record, so that None and the empty list [] stay distinct.          *)
(***************************************************************************)
NoneList == [none |-> TRUE, list |-> <<>>]

SomeList(l) == [none |-> FALSE, list |-> l]

\* truth value of an optional list: 'if transcript_result'
Truthy(o) == ~o.none /\ o.list # <<>>

\* a downloaded payload: NoContent is the initial None, EmptyString is ''
NoContent == <<>>

EmptyString == << <<>> >>

\* 'not subtitle_content'
ContentFalsy(content) == content = NoContent \/ content = EmptyString

(***************************************************************************)
(* Strategy enumeration: extract_transcript_youtube, lines 183-204         *)
(***************************************************************************)
\* PROXY_LIST, the credentials elided
PROXY_LIST == <<"proxy_a", "proxy_b">>

DirectClients == <<"web", "android", "ios", "tv">>

ProxyClients == <<"web", "android">>

\* number of working proxies that get strategies: working_proxies[:1]
ProxySlice == 1

Strategy(proxy_enabled, proxy_url, client_type) ==
    [proxy_enabled |-> proxy_enabled, proxy_url |-> proxy_url, client_type |-> client_type]

DirectStrategies ==
    [i \in 1..Len(DirectClients) |-> Strategy(FALSE, None, DirectClients[i])]

\* faulty variant: a probe that raises counts as healthy
test_proxy_unguarded(probe) == TRUE

\* test_proxy: True when the probe request answers, False when it raises
test_proxy(probe) == probe = "answers"

ProbeOutcomes == {"answers", "raises"}

\* faulty variant: every working proxy gets strategies
ProxyStrategiesUnsliced(working) ==
    Flatten([p \in 1..Len(working) |->
                [c \in 1..Len(ProxyClients) |-> Strategy(TRUE, working[p], ProxyClients[c])]])

\* faulty variant: the proxy is combined with every client of the direct list
ProxyStrategiesAllClients(working) ==
    LET used == SubSeq(working, 1, IF Len(working) < ProxySlice THEN Len(working)
                                   ELSE ProxySlice)
    IN  Flatten([p \in 1..Len(used) |->
                    [c \in 1..Len(DirectClients) |->
                        Strategy(TRUE, used[p], DirectClients[c])]])

\* strategies appended for the working proxies found
ProxyStrategies(working) ==
    LET used == SubSeq(working, 1, IF Len(working) < ProxySlice THEN Len(working)
                                   ELSE ProxySlice)
    IN  Flatten([p \in 1..Len(used) |->
                    [c \in 1..Len(ProxyClients) |-> Strategy(TRUE, used[p], ProxyClients[c])]])

(***************************************************************************)
(* One strategy attempt: extract_transcript_youtube, lines 206-331         *)
(*                                                                         *)
(* The world of an attempt is what the network answers:                    *)
(*   opts_raises  building the options or the YoutubeDL object raises      *)
(*   info         result of extract_info: status "raise", "none" or "ok"   *)
(*                with title (MissingTitle when the key is absent),        *)
(*                subtitles and automatic_captions (functions from the     *)
(*                languages present to the track, a sequence of formats)   *)
(*   net          answer to the subtitle request, per format ext           *)
(***************************************************************************)
lang_priority == <<"en", "en-US", "en-GB", "en-CA", "en-AU">>

\* the formats accepted by the download loop, as the list is written
AcceptedExts == <<"vtt", "srv3", "srv2", "srv1">>

MissingTitle == "<missing>"

\* info.get('title', 'Unknown Title')
TitleOf(info) == IF info.title = MissingTitle THEN "Unknown Title" ELSE info.title

InSeq(x, s) == \E i \in 1..Len(s) : s[i] = x

\* first track of dict in lang_priority order (the two 'for lang' loops)
FirstLang(dict) ==
    LET present == {i \in 1..Len(lang_priority) : lang_priority[i] \in DOMAIN dict}
    IN  IF present = {} THEN None
        ELSE lang_priority[CHOOSE i \in present : \A j \in present : i <= j]

\* faulty variant: automatic captions are looked up before manual ones
SelectTrackAutoFirst(info) ==
    LET manual == FirstLang(info.subtitles)
        auto == FirstLang(info.automatic_captions)
    IN  IF auto # None
        THEN [transcript_data |-> info.automatic_captions[auto],
              subtitle_source |-> <<"auto", auto>>]
        ELSE IF manual # None
        THEN [transcript_data |-> info.subtitles[manual],
              subtitle_source |-> <<"manual", manual>>]
        ELSE [transcript_data |-> <<>>, subtitle_source |-> <<>>]

\* lines 236-257: transcript_data and subtitle_source
SelectTrack(info) ==
    LET manual == FirstLang(info.subtitles)
        manual_data == IF manual = None THEN <<>> ELSE info.subtitles[manual]
        auto == FirstLang(info.automatic_captions)
    IN  IF manual_data # <<>>
        THEN [transcript_data |-> manual_data, subtitle_source |-> <<"manual", manual>>]
        ELSE IF auto # None
        THEN [transcript_data |-> info.automatic_captions[auto],
              subtitle_source |-> <<"auto", auto>>]
        ELSE [transcript_data |-> manual_data,
              subtitle_source |-> IF manual = None THEN <<>> ELSE <<"manual", manual>>]

\* lines 266-301: the download loop over the formats of the selected track, in
\* the order the track lists them; requested is the sequence of exts a request
\* was sent for, content the text of the first 200 response
RECURSIVE DownloadLoop(_, _, _)
DownloadLoop(transcript_data, net, requested) ==
    IF transcript_data = <<>> THEN [content |-> NoContent, requested |-> requested, ext |-> None]
    ELSE LET subtitle_format == Head(transcript_data)
             rest == Tail(transcript_data)
         IN  IF ~InSeq(subtitle_format.ext, AcceptedExts) \/ ~subtitle_format.url
             THEN DownloadLoop(rest, net, requested)
             ELSE LET response == net[subtitle_format.ext]
                      sent == Append(requested, subtitle_format.ext)
                  IN  IF response.status = 200
                      THEN [content |-> response.text, requested |-> sent,
                            ext |-> subtitle_format.ext]
                      ELSE DownloadLoop(rest, net, sent)

\* fields of an attempt that ended before the stage that sets them
Unset ==
    [transcript_data |-> <<>>, subtitle_source |-> <<>>, requested |-> <<>>,
     ext |-> None, subtitle_content |-> NoContent, parsed |-> FALSE,
     transcript_segments |-> <<>>]

\* lines 309-319: the parsed segments decide between success and failure
AttemptParsed(base, dl, segments) ==
    [kind |-> IF segments # <<>> THEN "success" ELSE "parse_empty",
     requested |-> dl.requested, ext |-> dl.ext, subtitle_content |-> dl.content,
     parsed |-> TRUE, transcript_segments |-> segments] @@ base

\* lines 303-310: 'if not subtitle_content', else parse
AttemptDownloaded(base, dl) ==
    IF ContentFalsy(dl.content)
    THEN [kind |-> "download_failed", requested |-> dl.requested, ext |-> dl.ext,
          subtitle_content |-> dl.content] @@ base @@ Unset
    ELSE AttemptParsed(base, dl, parse_subtitle_content(dl.content))

\* lines 259-301: 'if not transcript_data', else the download loop
AttemptSelected(video_title, sel, net) ==
    IF sel.transcript_data = <<>>
    THEN [kind |-> "no_captions", info_called |-> TRUE, title |-> video_title,
          ret_title |-> video_title, subtitle_source |-> sel.subtitle_source] @@ Unset
    ELSE AttemptDownloaded([info_called |-> TRUE, title |-> video_title,
                            ret_title |-> video_title,
                            transcript_data |-> sel.transcript_data,
                            subtitle_source |-> sel.subtitle_source],
                           DownloadLoop(sel.transcript_data, net, <<>>))

\* the body of the strategy loop for one world.  kind names how the attempt
\* ended; title is the value of video_title after it (old_title when the
\* attempt never assigned it); ret_title is the title of the tuple returned
\* when the attempt ends the loop
AttemptOutcome(w, old_title) ==
    IF w.opts_raises
    THEN [kind |-> "config_error", info_called |-> FALSE, title |-> old_title,
          ret_title |-> None] @@ Unset
    ELSE IF w.info.status = "raise"
    THEN [kind |-> "extract_raises", info_called |-> TRUE, title |-> old_title,
          ret_title |-> None] @@ Unset
    ELSE IF w.info.status = "none"
    THEN [kind |-> "no_info", info_called |-> TRUE, title |-> old_title,
          ret_title |-> None] @@ Unset
    ELSE AttemptSelected(TitleOf(w.info), SelectTrack(w.info), w.net)

(***************************************************************************)
(* Secondary backend: extract_transcript_alternative, lines 483-503        *)
(***************************************************************************)
\* the characters of a sequence as one string
RECURSIVE Str(_)
Str(chars) == IF chars = <<>> THEN "" ELSE Head(chars) \o Str(Tail(chars))

\* the 'Convert to our format' loop: one segment for each item, in order
ConvertItems(transcript_list) ==
    [i \in 1..Len(transcript_list) |->
        [start |-> transcript_list[i].start,
         duration |-> transcript_list[i].duration,
         text |-> Strip(transcript_list[i].text)]]

\* faulty variant: the lookup is sent without an identifier
AltLooksUpNoIdCheck(available, id) == available

\* lines 469-478: the lookup is sent only when the package was imported and
\* the URL holds an identifier
AltLooksUp(available, id) == available /\ id # NoId

\* the tuple the function returns; fetched is the answer of
\* list_transcripts(...).find_transcript(...).fetch(): status "raise" or "ok"
\* with the items
AlternativeResult(available, id, fetched) ==
    IF ~AltLooksUp(available, id) \/ fetched.status = "raise" \/ fetched.items = <<>>
    THEN [segments |-> NoneList, title |-> None]
    ELSE [segments |-> SomeList(ConvertItems(fetched.items)),
          title |-> "Video " \o Str(id)]

(***************************************************************************)
(* Input domains                                                           *)
(***************************************************************************)
\* bounds of the input domains
MaxLines == 3

MaxTracks == 3

MaxTrackLen == 3

MaxAltItems == 2

Langs == {"en", "en-US", "en-GB", "en-CA", "en-AU", "fr"}

\* exts a track can list: the four accepted ones and one that is not
Exts == {"vtt", "srv3", "srv2", "srv1", "json3"}

Format(ext) == [ext |-> ext, url |-> TRUE]

\* a format entry without url
FormatNoUrl(ext) == [ext |-> ext, url |-> FALSE]

Formats == {Format(e) : e \in Exts} \cup {FormatNoUrl("vtt")}

\* sequences of pairwise distinct elements of S, of length 1..n
DistinctSeqs(S, n) ==
    {s \in UNION {[1..k -> S] : k \in 1..n} :
        \A i, j \in 1..Len(s) : i # j => s[i] # s[j]}

\* dictionaries from at most n of the keys K to values in V
Dicts(K, V, n) ==
    UNION {[D -> V] : D \in {D \in SUBSET K : Cardinality(D) <= n}}

\* payloads
CueLine == <<"00:00:01.000", " ", "-->", " ", "00:00:02.000", " ", "align:start=0">>

PayVtt == << <<"WEBVTT">>, <<>>, CueLine, <<"<c>", "hello", "</c>", " ", "world">>, <<>> >>

PayVttNoText == << <<"WEBVTT">>, <<>>, CueLine, <<"<c>", "</c>">>, <<>> >>

PaySrv ==
    << <<"<transcript>", "<text start=\"12.5\">", "hi", "</text>">>,
       <<"<text start=\"2\">", "yo", "</text>", "</transcript>">> >>

PayUnknown == << <<"hello", " ", "world">> >>

Response(status, text) == [status |-> status, text |-> text]

\* a transport error (requests.get raises) is status 0
Raises == Response(0, NoContent)

\* every request of the attempt gets the same kind of answer
NetAllOk == [vtt |-> Response(200, PayVtt), srv3 |-> Response(200, PayUnknown),
             srv2 |-> Response(200, PaySrv), srv1 |-> Response(200, PaySrv)]

NetNoText == [vtt |-> Response(200, PayVttNoText), srv3 |-> Response(200, PayVttNoText),
              srv2 |-> Response(200, PayVttNoText), srv1 |-> Response(200, PayVttNoText)]

NetNotFound == [vtt |-> Response(404, PayUnknown), srv3 |-> Response(404, PayUnknown),
                srv2 |-> Response(404, PayUnknown), srv1 |-> Response(404, PayUnknown)]

NetRaises == [vtt |-> Raises, srv3 |-> Raises, srv2 |-> Raises, srv1 |-> Raises]

World(opts_raises, info, net) == [opts_raises |-> opts_raises, info |-> info, net |-> net]

Info(status, title, subtitles, automatic_captions) ==
    [status |-> status, title |-> title, subtitles |-> subtitles,
     automatic_captions |-> automatic_captions]

NoDict == <<>>

InfoRaise == Info("raise", MissingTitle, NoDict, NoDict)

InfoNone == Info("none", MissingTitle, NoDict, NoDict)

\* worlds of the orchestration: one or two for each way an attempt can end
ManualEn == "en" :> <<Format("vtt"), Format("srv1")>>

AutoEnGb == "en-GB" :> <<Format("srv1")>>

MainWorlds ==
    {World(TRUE, InfoNone, NetAllOk),
     World(FALSE, InfoRaise, NetAllOk),
     World(FALSE, InfoNone, NetAllOk),
     World(FALSE, Info("ok", "Video A", NoDict, NoDict), NetAllOk),
     World(FALSE, Info("ok", MissingTitle, "fr" :> <<Format("vtt")>>, NoDict),
           NetAllOk),
     World(FALSE, Info("ok", "Video A", ManualEn, NoDict), NetNotFound),
     World(FALSE, Info("ok", "Video A", NoDict, AutoEnGb), NetRaises),
     World(FALSE, Info("ok", "Video A", ManualEn, NoDict), NetNoText),
     World(FALSE, Info("ok", "Video A", ManualEn, NoDict), NetAllOk),
     World(FALSE, Info("ok", MissingTitle, NoDict, AutoEnGb), NetAllOk)}

\* worlds of one fetch: many caption dictionaries with one-format tracks, and
\* many tracks with every combination of answers
SelectWorlds ==
    {World(FALSE, Info("ok", t, d[1], d[2]), NetAllOk) :
        t \in {"Video A", MissingTitle},
        d \in {p \in Dicts(Langs, {<<Format("vtt")>>, <<Format("json3")>>}, MaxTracks)
                     \X Dicts(Langs, {<<Format("srv1")>>}, MaxTracks) :
                  Cardinality(DOMAIN p[1]) + Cardinality(DOMAIN p[2]) <= MaxTracks}}

AcceptedSet == {e \in Exts : InSeq(e, AcceptedExts)}

TrackExts(tr) == {tr[i].ext : i \in 1..Len(tr)}

\* the answers vary for the formats the track lists
DownloadWorlds ==
    {World(FALSE, Info("ok", "Video A", "en" :> x[1], NoDict), x[2]) :
        x \in {y \in DistinctSeqs(Formats, MaxTrackLen)
                        \X [AcceptedSet -> {Response(200, PayVtt), Response(200, EmptyString),
                                            Response(404, PayUnknown), Raises}] :
                  \A e \in AcceptedSet \ TrackExts(y[1]) : y[2][e] = Raises}}

FetcherWorlds == SelectWorlds \cup DownloadWorlds

\* answers of the secondary backend
AltItems ==
    {[start |-> 0, duration |-> 2000, text |-> <<"hello">>],
     [start |-> 1500, duration |-> 500, text |-> <<" ">>]}

AltOutcomes ==
    {[status |-> "raise", items |-> <<>>]}
    \cup {[status |-> "ok", items |-> s] :
            s \in UNION {[1..k -> AltItems] : k \in 0..MaxAltItems}}

\* URLs of the orchestration
UrlWatch == <<"h", "t", "t", "p", "s", ":", "/", "/", "w", "w", "w", ".", "y", "o", "u", "t", "u", "b", "e", ".", "c", "o", "m", "/", "w", "a", "t", "c", "h", "?", "v", "=", "d", "Q", "w", "4", "w", "9", "W", "g", "X", "c", "Q">>

UrlChannel == <<"h", "t", "t", "p", "s", ":", "/", "/", "w", "w", "w", ".", "y", "o", "u", "t", "u", "b", "e", ".", "c", "o", "m", "/", "c", "h", "a", "n", "n", "e", "l", "/", "m", "u", "s", "i", "c">>

UrlForeign == <<"h", "t", "t", "p", "s", ":", "/", "/", "e", "x", "a", "m", "p", "l", "e", ".", "c", "o", "m", "/", "w", "a", "t", "c", "h", "?", "v", "=", "d", "Q", "w", "4", "w", "9", "W", "g", "X", "c", "Q">>

MainUrls == {UrlWatch, UrlChannel, UrlForeign, <<>>}

(***************************************************************************)
(* State of one extraction request                                         *)
(***************************************************************************)
VARIABLES
    pc,                  \* position of the request
    url,                 \* argument of extract_transcript
    use_proxy,           \* argument of extract_transcript
    api_available,       \* YOUTUBE_TRANSCRIPT_API_AVAILABLE
    video_id,            \* extract_transcript_youtube: video_id
    strategies,          \* extract_transcript_youtube: strategies
    working_proxies,     \* extract_transcript_youtube: working_proxies
    probed,              \* number of entries of PROXY_LIST probed so far
    attempt,             \* index of enumerate(strategies, 1)
    video_title,         \* extract_transcript_youtube: video_title
    world,               \* what the network answered to the last attempt
    kind,                \* how the last attempt ended
    transcript_data,     \* track selected by the last attempt
    subtitle_source,     \* <<kind, language>> of that track
    requested,           \* exts the last attempt sent a subtitle request for
    subtitle_content,    \* payload downloaded by the last attempt
    transcript_segments, \* segments parsed by the last attempt
    title,               \* extract_transcript: title returned by the primary backend
    fetched,             \* what the secondary backend answered
    probe_answers,       \* what the probes of PROXY_LIST answered, in order
    result,              \* tuple returned by extract_transcript
    attempted,           \* strategies attempted so far, in order
    calls,               \* number of calls of each network operation and of the parser
    fail_kinds,          \* the ways attempts of this request have failed
    titles_seen,         \* titles obtained from metadata by the attempts
    events,              \* network operations of the last step: begins and ends, in order
    generate_summary,    \* extract_transcript_route: generate_summary
    response,            \* extract_transcript_route: the response returned
    environ,             \* os.environ and the cookies file, as get_advanced_ydl_opts reads them
    ydl_opts,            \* the opts get_advanced_ydl_opts returned, one per attempt so far
    gemini_model,        \* app.py: _gemini_model
    callers,             \* the threads inside get_gemini_model: position and local handle
    constructions,       \* number of GenerativeModel objects constructed so far
    text,                \* format_as_paragraphs: argument text
    max_length,          \* format_as_paragraphs: argument max_length
    paragraphs           \* format_as_paragraphs: the list returned

vars == <<pc, url, use_proxy, api_available, video_id, strategies, working_proxies,
          probed, attempt, video_title, world, kind, transcript_data, subtitle_source,
          requested, subtitle_content, transcript_segments, title, fetched,
          probe_answers, result, attempted, calls, fail_kinds, titles_seen, events,
          generate_summary, response, environ, ydl_opts, gemini_model, callers,
          constructions, text, max_length, paragraphs>>

request_vars == <<url, use_proxy, api_available>>

attempt_vars == <<world, kind, transcript_data, subtitle_source, requested,
                  subtitle_content, transcript_segments>>

route_vars == <<generate_summary, response>>

options_vars == <<environ, ydl_opts>>

model_vars == <<gemini_model, callers, constructions>>

formatter_vars == <<text, max_length, paragraphs>>

NoCalls == [probe |-> 0, info |-> 0, download |-> 0, parse |-> 0,
            alt_call |-> 0, alt_lookup |-> 0]

NoResult == [returned |-> FALSE, segments |-> NoneList, title |-> None, by |-> None]

\* the tuple (segments, title) returned, by naming the backend it came from
Returned(segments, t, by) ==
    [returned |-> TRUE, segments |-> segments, title |-> t, by |-> by]

NotFetched == [status |-> None, items |-> <<>>]

NoResponse == [status |-> 0]

\* no variable of the environment set and no cookies file: GEMINI_API_KEY then
\* has the default written at line 31 of app.py, which is not empty
NoEnviron ==
    [PRODUCTION |-> None, SERVER_ENVIRONMENT |-> None, cookies |-> FALSE,
     GEMINI_API_KEY |-> TRUE]

\* _gemini_model = None
NoModel == 0

\* no options built yet
NoOpts == <<>>

\* the route, the options and the language-model handle at rest
RouteIdle == generate_summary = FALSE /\ response = NoResponse

OptionsIdle == environ = NoEnviron /\ ydl_opts = NoOpts

ModelIdle == gemini_model = NoModel /\ callers = <<>> /\ constructions = 0

\* format_as_paragraphs not called
FormatterIdle == text = <<>> /\ max_length = 0 /\ paragraphs = <<>>

\* everything but the arguments, before the request starts
Fresh ==
    /\ video_id = NoId
    /\ strategies = <<>>
    /\ working_proxies = <<>>
    /\ probed = 0
    /\ attempt = 0
    /\ video_title = None
    /\ world = World(FALSE, InfoNone, NetAllOk)
    /\ kind = None
    /\ transcript_data = <<>>
    /\ subtitle_source = <<>>
    /\ requested = <<>>
    /\ subtitle_content = NoContent
    /\ transcript_segments = <<>>
    /\ title = None
    /\ fetched = NotFetched
    /\ probe_answers = <<>>
    /\ result = NoResult
    /\ attempted = <<>>
    /\ calls = NoCalls
    /\ fail_kinds = {}
    /\ titles_seen = {}
    /\ events = <<>>

\* a network operation of the request, by the attempt it belongs to (0: none)
Op(phase, op, k) == [phase |-> phase, op |-> op, attempt |-> k]

\* faulty variant: the call returns without waiting for the answer
BlockingNoWait(op, k) == <<Op("begin", op, k)>>

\* a blocking call: the function goes on only when the call has returned or
\* raised (opener.open at line 48, extract_info at line 220, requests.get at
\* line 289, fetch at line 483)
Blocking(op, k) == <<Op("begin", op, k), Op("end", op, k)>>

Init ==
    /\ pc = "start"
    /\ url \in MainUrls
    /\ use_proxy \in BOOLEAN
    /\ api_available \in BOOLEAN
    /\ Fresh
    /\ RouteIdle /\ OptionsIdle /\ ModelIdle /\ FormatterIdle

(***************************************************************************)
(* extract_transcript, lines 516-526, and extract_transcript_youtube,      *)
(* lines 174-192: validation of the URL, resolution of the identifier and  *)
(* the direct strategies                                                   *)
(***************************************************************************)
ValidUrl(u) == u # <<>> /\ (Contains(u, LitYoutubeCom) \/ Contains(u, LitYoutuBeHost))

Start ==
    /\ pc = "start"
    /\ IF ~ValidUrl(url)
       THEN /\ result' = Returned(NoneList, None, None)
            /\ pc' = "done"
            /\ UNCHANGED <<video_id, strategies, attempt>>
       ELSE /\ video_id' = get_youtube_video_id(url)
            /\ UNCHANGED result
            /\ IF video_id' = NoId
               THEN /\ pc' = "alt"
                    /\ UNCHANGED <<strategies, attempt>>
               ELSE /\ strategies' = DirectStrategies
                    /\ IF use_proxy /\ Len(PROXY_LIST) > 0
                       THEN pc' = "probe" /\ UNCHANGED attempt
                       ELSE pc' = "attempt" /\ attempt' = 1
    /\ UNCHANGED <<request_vars, working_proxies, probed, video_title, attempt_vars,
                   title, fetched, probe_answers, attempted, calls, fail_kinds,
                   titles_seen, events, route_vars, options_vars, formatter_vars, model_vars>>

(***************************************************************************)
(* extract_transcript_youtube, lines 192-204: one probe of the 'for proxy  *)
(* in PROXY_LIST' loop; the last probe is followed by the proxy strategies *)
(***************************************************************************)
\* faulty variant: probing stops at the first endpoint that answers
ProbeUntilHealthy ==
    /\ pc = "probe"
    /\ \E answer \in ProbeOutcomes :
          LET proxy == PROXY_LIST[probed + 1]
              working == IF test_proxy(answer) THEN Append(working_proxies, proxy)
                         ELSE working_proxies
          IN  /\ working_proxies' = working
              /\ probed' = probed + 1
              /\ probe_answers' = Append(probe_answers, answer)
              /\ calls' = [calls EXCEPT !.probe = @ + 1]
              /\ events' = Blocking("probe", 0)
              /\ IF probed + 1 = Len(PROXY_LIST) \/ test_proxy(answer)
                 THEN /\ strategies' = strategies \o ProxyStrategies(working)
                      /\ pc' = "attempt"
                      /\ attempt' = 1
                 ELSE UNCHANGED <<strategies, pc, attempt>>
    /\ UNCHANGED <<request_vars, video_id, video_title, attempt_vars, title, fetched,
                   result, attempted, fail_kinds, titles_seen, route_vars, options_vars, formatter_vars,
                   model_vars>>

Probe ==
    /\ pc = "probe"
    /\ \E answer \in ProbeOutcomes :
          LET proxy == PROXY_LIST[probed + 1]
              working == IF test_proxy(answer) THEN Append(working_proxies, proxy)
                         ELSE working_proxies
          IN  /\ working_proxies' = working
              /\ probed' = probed + 1
              /\ probe_answers' = Append(probe_answers, answer)
              /\ calls' = [calls EXCEPT !.probe = @ + 1]
              /\ events' = Blocking("probe", 0)
              /\ IF probed + 1 = Len(PROXY_LIST)
                 THEN /\ strategies' = strategies \o ProxyStrategies(working)
                      /\ pc' = "attempt"
                      /\ attempt' = 1
                 ELSE UNCHANGED <<strategies, pc, attempt>>
    /\ UNCHANGED <<request_vars, video_id, video_title, attempt_vars, title, fetched,
                   result, attempted, fail_kinds, titles_seen, route_vars, options_vars, formatter_vars,
                   model_vars>>

(***************************************************************************)
(* extract_transcript_youtube, lines 206-331, one iteration of the         *)
(* strategy loop, and extract_transcript, lines 526-530, when it returns   *)
(***************************************************************************)
\* faulty variant: a success does not end the loop before the last strategy
AfterAttemptNoReturn(outcome, last) ==
    IF last THEN (IF outcome = "success" THEN "done" ELSE "alt") ELSE "attempt"

\* faulty variant: an exception ends the loop instead of moving on
AfterAttemptAbortOnRaise(outcome, last) ==
    IF outcome = "success" THEN "done"
    ELSE IF last \/ outcome \in {"extract_raises", "config_error"} THEN "alt"
    ELSE "attempt"

\* faulty variant: the secondary backend is tried whatever the primary found
AfterAttemptAlwaysAlt(outcome, last) ==
    IF outcome = "success" \/ last THEN "alt" ELSE "attempt"

\* where the strategy loop goes after an attempt: a success returns the
\* segments, and extract_transcript returns them in turn ("done"); a failure
\* continues with the next strategy, and on the last one returns no segments,
\* on which extract_transcript turns to the secondary backend ("alt")
AfterAttempt(outcome, last) ==
    IF outcome = "success" THEN "done" ELSE IF last THEN "alt" ELSE "attempt"

\* the calls of one iteration of the strategy loop, in the order made
AttemptEvents(o, k) ==
    (IF o.info_called THEN Blocking("info", k) ELSE <<>>)
        \o Flatten([i \in 1..Len(o.requested) |-> Blocking("download", k)])

AttemptIn(worlds) ==
    /\ \E w \in worlds :
       \E o \in {AttemptOutcome(w, video_title)} :
          LET last == attempt = Len(strategies)
          IN  /\ world' = w
              /\ kind' = o.kind
              /\ video_title' = o.title
              /\ transcript_data' = o.transcript_data
              /\ subtitle_source' = o.subtitle_source
              /\ requested' = o.requested
              /\ subtitle_content' = o.subtitle_content
              /\ transcript_segments' = o.transcript_segments
              /\ attempted' = Append(attempted, strategies[attempt])
              /\ events' = AttemptEvents(o, attempt)
              /\ calls' = [calls EXCEPT
                              !.info = @ + (IF o.info_called THEN 1 ELSE 0),
                              !.download = @ + Len(o.requested),
                              !.parse = @ + (IF o.parsed THEN 1 ELSE 0)]
              /\ titles_seen' = IF o.kind \in {"config_error", "extract_raises", "no_info"}
                                THEN titles_seen
                                ELSE titles_seen \cup {o.title}
              /\ fail_kinds' = IF o.kind = "success" THEN fail_kinds
                               ELSE fail_kinds \cup {o.kind}
              /\ pc' = AfterAttempt(o.kind, last)
              /\ attempt' = IF pc' = "attempt" THEN attempt + 1 ELSE attempt
              /\ result' = IF pc' = "done"
                           THEN Returned(SomeList(o.transcript_segments), o.title,
                                         "primary")
                           ELSE result
              /\ title' = IF pc' = "alt" THEN o.ret_title ELSE title
    /\ UNCHANGED <<request_vars, video_id, strategies, working_proxies, probed, fetched,
                   probe_answers, route_vars, options_vars, formatter_vars, model_vars>>

\* the guard stands in front of the application: TLC would otherwise evaluate
\* the argument once, before the search, and share that value among its workers
Attempt == pc = "attempt" /\ AttemptIn(MainWorlds)

(***************************************************************************)
(* extract_transcript, lines 532-541, with extract_transcript_alternative  *)
(***************************************************************************)
\* faulty variant: a failure returns an empty list in place of None
AlternativeInEmptyList(answers) ==
    /\ pc = "alt"
    /\ \E id \in {get_youtube_video_id(url)}, answer \in answers :
       \E alt \in {AlternativeResult(api_available, id, answer)} :
          LET looked_up == AltLooksUp(api_available, id)
          IN  /\ fetched' = (IF looked_up THEN answer ELSE NotFetched)
              /\ events' = (IF looked_up THEN Blocking("lookup", 0) ELSE <<>>)
              /\ calls' = [calls EXCEPT !.alt_call = @ + 1,
                                        !.alt_lookup = @ + (IF looked_up THEN 1 ELSE 0)]
              /\ result' = IF Truthy(alt.segments)
                           THEN Returned(alt.segments,
                                         IF alt.title # None THEN alt.title ELSE title,
                                         "secondary")
                           ELSE Returned(SomeList(<<>>), title, None)
    /\ pc' = "done"
    /\ UNCHANGED <<request_vars, video_id, strategies, working_proxies, probed, attempt,
                   video_title, attempt_vars, title, probe_answers, attempted,
                   fail_kinds, titles_seen, route_vars, options_vars, formatter_vars, model_vars>>

AlternativeIn(answers) ==
    /\ pc = "alt"
    /\ \E id \in {get_youtube_video_id(url)}, answer \in answers :
       \E alt \in {AlternativeResult(api_available, id, answer)} :
          LET looked_up == AltLooksUp(api_available, id)
          IN  /\ fetched' = (IF looked_up THEN answer ELSE NotFetched)
              /\ events' = (IF looked_up THEN Blocking("lookup", 0) ELSE <<>>)
              /\ calls' = [calls EXCEPT !.alt_call = @ + 1,
                                        !.alt_lookup = @ + (IF looked_up THEN 1 ELSE 0)]
              /\ result' = IF Truthy(alt.segments)
                           THEN Returned(alt.segments,
                                         IF alt.title # None THEN alt.title ELSE title,
                                         "secondary")
                           ELSE Returned(NoneList, title, None)
    /\ pc' = "done"
    /\ UNCHANGED <<request_vars, video_id, strategies, working_proxies, probed, attempt,
                   video_title, attempt_vars, title, probe_answers, attempted,
                   fail_kinds, titles_seen, route_vars, options_vars, formatter_vars, model_vars>>

Alternative == pc = "alt" /\ AlternativeIn(AltOutcomes)

Next == Start \/ Probe \/ Attempt \/ Alternative

Spec == Init /\ [][Next]_vars

\* a request whose calls all return or time out: the function never stops
\* between two steps.  The attempts meet four of the worlds: the options
\* raise, extract_info raises, the video has no captions, the attempt succeeds
LiveWorlds ==
    {World(TRUE, InfoNone, NetAllOk),
     World(FALSE, InfoRaise, NetAllOk),
     World(FALSE, Info("ok", "Video A", NoDict, NoDict), NetAllOk),
     World(FALSE, Info("ok", "Video A", ManualEn, NoDict), NetAllOk)}

\* answers of the secondary backend: it raises, it answers with an empty
\* list, it answers with one item
LiveAltOutcomes ==
    {[status |-> "raise", items |-> <<>>],
     [status |-> "ok", items |-> <<>>],
     [status |-> "ok", items |-> <<[start |-> 0, duration |-> 2000, text |-> <<"hello">>]>>]}

LiveAttempt == pc = "attempt" /\ AttemptIn(LiveWorlds)

LiveAlternative == pc = "alt" /\ AlternativeIn(LiveAltOutcomes)

NextLive == Start \/ Probe \/ LiveAttempt \/ LiveAlternative

SpecLive == Init /\ [][NextLive]_vars /\ WF_vars(NextLive)

(***************************************************************************)
(* The resolver alone: get_youtube_video_id applied to one URL             *)
(***************************************************************************)
HostYoutube == <<"h", "t", "t", "p", "s", ":", "/", "/", "w", "w", "w", ".", "y", "o", "u", "t", "u", "b", "e", ".", "c", "o", "m", "/">>

HostMobile == <<"h", "t", "t", "p", ":", "/", "/", "m", ".", "y", "o", "u", "t", "u", "b", "e", ".", "c", "o", "m", "/">>

HostShort == <<"h", "t", "t", "p", "s", ":", "/", "/", "y", "o", "u", "t", "u", ".", "b", "e", "/">>

HostOther == <<"h", "t", "t", "p", "s", ":", "/", "/", "e", "x", "a", "m", "p", "l", "e", ".", "c", "o", "m", "/">>

PathWatch == <<"w", "a", "t", "c", "h", "?", "v", "=">>

PathWatchLater == <<"w", "a", "t", "c", "h", "?", "f", "e", "a", "t", "u", "r", "e", "=", "s", "h", "a", "r", "e", "&", "v", "=">>

PathShorts == <<"s", "h", "o", "r", "t", "s", "/">>

PathEmbed == <<"e", "m", "b", "e", "d", "/">>

PathV == <<"v", "/">>

PathChannel == <<"c", "h", "a", "n", "n", "e", "l", "/">>

PathList == <<"p", "l", "a", "y", "l", "i", "s", "t", "?", "l", "i", "s", "t", "=">>

IdA == <<"d", "Q", "w", "4", "w", "9", "W", "g", "X", "c", "Q">>

IdB == <<"a", "_", "b", "-", "c", "_", "d", "-", "e", "_", "0">>

IdTooShort == <<"d", "Q", "w", "4", "w", "9", "W", "g", "X", "c">>

IdBadChar == <<"d", "Q", "w", "4", "w", "!", "W", "g", "X", "c", "Q">>

SuffixTime == <<"&", "t", "=", "1", "0">>

SuffixShare == <<"?", "s", "i", "=", "x", "1">>

SuffixSecondId == <<"?", "v", "=", "A", "A", "A", "A", "A", "A", "A", "A", "A", "A", "A">>

SuffixLonger == <<"Z", "z">>

UrlHosts == {HostYoutube, HostMobile, HostShort, HostOther}

UrlPaths == {<<>>, PathWatch, PathWatchLater, PathShorts, PathEmbed, PathV, PathChannel,
             PathList}

UrlIds == {IdA, IdB, IdTooShort, IdBadChar}

UrlSuffixes == {<<>>, SuffixTime, SuffixShare, SuffixSecondId, SuffixLonger}

UrlShapes == UrlHosts \X UrlPaths \X UrlIds \X UrlSuffixes

UrlOf(shape) == shape[1] \o shape[2] \o shape[3] \o shape[4]

ResolverUrls == {UrlOf(shape) : shape \in UrlShapes} \cup {<<>>}

InitResolver ==
    /\ pc = "resolve"
    /\ url \in ResolverUrls
    /\ use_proxy = FALSE
    /\ api_available = TRUE
    /\ Fresh
    /\ RouteIdle /\ OptionsIdle /\ ModelIdle /\ FormatterIdle

Resolve ==
    /\ pc = "resolve"
    /\ video_id' = get_youtube_video_id(url)
    /\ pc' = "resolved"
    /\ UNCHANGED <<request_vars, strategies, working_proxies, probed, attempt,
                   video_title, attempt_vars, title, fetched, probe_answers, result,
                   attempted, calls, fail_kinds, titles_seen, events, route_vars,
                   options_vars, formatter_vars, model_vars>>

NextResolver == Resolve

SpecResolver == InitResolver /\ [][NextResolver]_vars

(***************************************************************************)
(* One fetch alone: the first strategy attempt of a request for UrlWatch   *)
(* without proxies, on the worlds of FetcherWorlds                         *)
(***************************************************************************)
InitFetcher ==
    /\ pc = "attempt"
    /\ url = UrlWatch
    /\ use_proxy = FALSE
    /\ api_available = TRUE
    /\ video_id = get_youtube_video_id(UrlWatch)
    /\ strategies = DirectStrategies
    /\ working_proxies = <<>>
    /\ probed = 0
    /\ attempt = 1
    /\ video_title = None
    /\ world = World(FALSE, InfoNone, NetAllOk)
    /\ kind = None
    /\ transcript_data = <<>>
    /\ subtitle_source = <<>>
    /\ requested = <<>>
    /\ subtitle_content = NoContent
    /\ transcript_segments = <<>>
    /\ title = None
    /\ fetched = NotFetched
    /\ probe_answers = <<>>
    /\ result = NoResult
    /\ attempted = <<>>
    /\ calls = NoCalls
    /\ fail_kinds = {}
    /\ titles_seen = {}
    /\ events = <<>>
    /\ RouteIdle /\ OptionsIdle /\ ModelIdle /\ FormatterIdle

Fetch ==
    /\ pc = "attempt"
    /\ attempted = <<>>
    /\ AttemptIn(FetcherWorlds)

NextFetcher == Fetch

SpecFetcher == InitFetcher /\ [][NextFetcher]_vars

(***************************************************************************)
(* The parser alone: parse_subtitle_content applied to one payload         *)
(***************************************************************************)
ParserLines ==
    { <<>>,
      <<"WEBVTT">>,
      CueLine,
      <<"a-->b">>,
      <<"hello">>,
      <<"<c>", "hello", "</c>", " ", "world">>,
      <<"<c>", "</c>">>,
      <<"<transcript>", "<text start=\"12.5\">", "hi", "</text>", "</transcript>">>,
      <<"<transcript>", "<text start=\"2\">", "a", " ", "-->", " ", "b", "</text>",
        "</transcript>">>,
      <<"<timedtext start=\"0\">", "<text>", "hello", "</text>", "</timedtext>">>,
      <<"<transcript>", "<text>", "hello", "</text>", "</transcript>">>,
      <<"<text start=\"abc\">", "x", "</text>">> }

ParserPayloads == UNION {[1..n -> ParserLines] : n \in 1..MaxLines}

\* WebVTT payloads built cue by cue: the signature, then up to MaxCues blocks
\* separated by blank lines, a block being a line with '-->' and the lines
\* under it
MaxCues == 2

\* leading and trailing whitespace around the time range
CueLineIndented == <<" ", "00:01:05.250", " ", "-->", " ", "00:01:06.000", " ">>

\* ' --> ' between two words that are no timestamps
CueLineWords == <<"foo", " ", "-->", " ", "bar">>

\* '-->' without the spaces around it
CueLineUnspaced == <<"a-->b">>

CueTimeLines == {CueLine, CueLineIndented, CueLineWords, CueLineUnspaced}

LineHello == <<"hello">>

LineTagged == <<"<c>", "hello", "</c>", " ", "world">>

LineMarkup == <<"<c>", "</c>">>

CueTexts == {<<LineHello>>, <<LineTagged>>, <<LineMarkup>>, <<LineHello, LineTagged>>,
             <<LineMarkup, LineHello>>}

CueBlocks == {<<b[1]>> \o b[2] : b \in CueTimeLines \X CueTexts}

\* the blocks one after the other, a blank line in between
RECURSIVE JoinBlocks(_)
JoinBlocks(blocks) ==
    IF blocks = <<>> THEN <<>>
    ELSE IF Len(blocks) = 1 THEN blocks[1]
         ELSE blocks[1] \o << <<>> >> \o JoinBlocks(Tail(blocks))

VttPayloads ==
    {<< <<"WEBVTT">>, <<>> >> \o JoinBlocks(blocks) :
        blocks \in UNION {[1..n -> CueBlocks] : n \in 1..MaxCues}}

\* timed-text documents: a transcript element on one line around one text
\* element with each of the start values
SrvStartPayloads ==
    {<< <<"<transcript>", r.tag, "hi", "</text>", "</transcript>">> >> : r \in StartTable}

\* timed-text documents built element by element: the opening tag of the
\* root, up to MaxElems text elements one per line, and the closing tag of
\* the root or, for a document cut short, nothing
MaxElems == 3

ElemDecimal == <<"<text start=\"12.5\">", "hi", "</text>">>

ElemInteger == <<"<text start=\"2\">", "hello", "</text>">>

\* no start attribute: text_elem.get('start', '0')
ElemNoStart == <<"<text>", "world", "</text>">>

ElemNonNumeric == <<"<text start=\"abc\">", "x", "</text>">>

ElemBlank == <<"<text start=\"2\">", " ", "</text>">>

\* a '<' that opens no tag: the document is not well-formed
ElemBroken == <<"<text start=\"2\">", "<00:00:01.500>", "</text>">>

TextElemLines == {ElemDecimal, ElemInteger, ElemNoStart, ElemNonNumeric, ElemBlank,
                  ElemBroken}

SrvDocPayloads ==
    {<< <<"<transcript>">> >> \o elems \o closing :
        elems \in UNION {[1..n -> TextElemLines] : n \in 1..MaxElems},
        closing \in {<<>>, << <<"</transcript>">> >>}}

ParserInputs == ParserPayloads \cup VttPayloads \cup SrvStartPayloads \cup SrvDocPayloads

InitParser ==
    /\ pc = "parse"
    /\ url = <<>>
    /\ use_proxy = FALSE
    /\ api_available = TRUE
    /\ video_id = NoId
    /\ strategies = <<>>
    /\ working_proxies = <<>>
    /\ probed = 0
    /\ attempt = 0
    /\ video_title = None
    /\ world = World(FALSE, InfoNone, NetAllOk)
    /\ kind = None
    /\ transcript_data = <<>>
    /\ subtitle_source = <<>>
    /\ requested = <<>>
    /\ subtitle_content \in ParserInputs
    /\ transcript_segments = <<>>
    /\ title = None
    /\ fetched = NotFetched
    /\ probe_answers = <<>>
    /\ result = NoResult
    /\ attempted = <<>>
    /\ calls = NoCalls
    /\ fail_kinds = {}
    /\ titles_seen = {}
    /\ events = <<>>
    /\ RouteIdle /\ OptionsIdle /\ ModelIdle /\ FormatterIdle

Parse ==
    /\ pc = "parse"
    /\ transcript_segments' = parse_subtitle_content(subtitle_content)
    /\ pc' = "parsed"
    /\ UNCHANGED <<request_vars, video_id, strategies, working_proxies, probed, attempt,
                   video_title, world, kind, transcript_data, subtitle_source, requested,
                   subtitle_content, title, fetched, probe_answers, result, attempted,
                   calls, fail_kinds, titles_seen, events, route_vars, options_vars, formatter_vars,
                   model_vars>>

NextParser == Parse

SpecParser == InitParser /\ [][NextParser]_vars

(***************************************************************************)
(* app.py, get_gemini_model, lines 34-52: the shared handle of the         *)
(* language-model client.  The requests of one process are served by       *)
(* threads, which may be switched between any two of the steps below.      *)
(* A handle is the number of the GenerativeModel object, in the order      *)
(* the objects were constructed.                                           *)
(***************************************************************************)
\* threads that call get_gemini_model
MaxCallers == 2

\* objects constructed at most, over the life of the process
MaxConstructions == 3

Callers == 1..MaxCallers

\* a thread outside get_gemini_model; built is the object its call
\* constructed, returned the value its last call returned
AtRest == [pc |-> "idle", built |-> NoModel, returned |-> NoModel]

\* the handle and the count of objects after a call that runs alone, lines
\* 37-51 without interruption; ok tells whether configure and the constructor
\* return
GeminiAfterCall(model, key, ok, count) ==
    IF model = NoModel /\ key
    THEN (IF ok THEN [model |-> count + 1, count |-> count + 1]
          ELSE [model |-> NoModel, count |-> count])
    ELSE [model |-> model, count |-> count]

serving_vars == <<pc, request_vars, video_id, strategies, working_proxies, probed, attempt,
                  video_title, attempt_vars, title, fetched, probe_answers, result,
                  attempted, calls, fail_kinds, titles_seen, events, route_vars,
                  ydl_opts, formatter_vars>>

InitModel ==
    /\ pc = "serving"
    /\ url = <<>>
    /\ use_proxy = TRUE
    /\ api_available = TRUE
    /\ Fresh
    /\ RouteIdle /\ FormatterIdle
    /\ environ \in {NoEnviron, [NoEnviron EXCEPT !.GEMINI_API_KEY = FALSE]}
    /\ ydl_opts = NoOpts
    /\ gemini_model = NoModel
    /\ callers = [t \in Callers |-> AtRest]
    /\ constructions = 0

\* a request thread enters get_gemini_model
GetModelCall ==
    \E t \in Callers :
        /\ callers[t].pc = "idle"
        /\ callers' = [callers EXCEPT ![t].pc = "test", ![t].built = NoModel]
        /\ UNCHANGED <<serving_vars, environ, gemini_model, constructions>>

\* line 37: if _gemini_model is None and GEMINI_API_KEY
GetModelTest ==
    \E t \in Callers :
        /\ callers[t].pc = "test"
        /\ callers' = [callers EXCEPT ![t].pc =
                          IF gemini_model = NoModel /\ environ.GEMINI_API_KEY
                          THEN "construct" ELSE "return"]
        /\ UNCHANGED <<serving_vars, environ, gemini_model, constructions>>

\* lines 39-48: genai.configure and the GenerativeModel constructor, which
\* return a new object or raise
GetModelConstruct ==
    \E t \in Callers, ok \in BOOLEAN :
        /\ callers[t].pc = "construct"
        /\ ok => constructions < MaxConstructions
        /\ IF ok
           THEN /\ constructions' = constructions + 1
                /\ callers' = [callers EXCEPT ![t].pc = "assign",
                                              ![t].built = constructions + 1]
           ELSE /\ callers' = [callers EXCEPT ![t].pc = "except"]
                /\ UNCHANGED constructions
        /\ UNCHANGED <<serving_vars, environ, gemini_model>>

\* line 40: the assignment to _gemini_model
GetModelAssign ==
    \E t \in Callers :
        /\ callers[t].pc = "assign"
        /\ gemini_model' = callers[t].built
        /\ callers' = [callers EXCEPT ![t].pc = "return"]
        /\ UNCHANGED <<serving_vars, environ, constructions>>

\* lines 49-51: except Exception: _gemini_model = None
GetModelExcept ==
    \E t \in Callers :
        /\ callers[t].pc = "except"
        /\ gemini_model' = NoModel
        /\ callers' = [callers EXCEPT ![t].pc = "return"]
        /\ UNCHANGED <<serving_vars, environ, constructions>>

\* line 52: return _gemini_model
GetModelReturn ==
    \E t \in Callers :
        /\ callers[t].pc = "return"
        /\ callers' = [callers EXCEPT ![t].pc = "idle", ![t].returned = gemini_model]
        /\ UNCHANGED <<serving_vars, environ, gemini_model, constructions>>

NextModel ==
    \/ GetModelCall \/ GetModelTest \/ GetModelConstruct
    \/ GetModelAssign \/ GetModelExcept \/ GetModelReturn

SpecModel == InitModel /\ [][NextModel]_vars

(***************************************************************************)
(* get_advanced_ydl_opts, lines 84-161, as the strategy loop calls it at   *)
(* line 215: one call per strategy, in the order of the list.  The         *)
(* environment is read at each call and does not change during a request.  *)
(* sleep_interval is in tenths of a second.                                *)
(***************************************************************************)
BaseOpts(client_type, cookies) ==
    [retries |-> 2, fragment_retries |-> 2, sleep_interval |-> 5,
     max_sleep_interval |-> 3, socket_timeout |-> 30, player_client |-> <<client_type>>,
     proxy |-> None, geo_bypass |-> FALSE, cookiefile |-> cookies]

\* opts.update of lines 133-142
ProxyUpdate(opts, proxy_url) ==
    [opts EXCEPT !.proxy = proxy_url, !.geo_bypass = TRUE, !.sleep_interval = 10,
                 !.max_sleep_interval = 5, !.retries = 3, !.fragment_retries = 3,
                 !.socket_timeout = 45]

\* opts.update of lines 152-158
ProductionUpdate(opts) ==
    [opts EXCEPT !.sleep_interval = 10, !.max_sleep_interval = 5, !.retries = 3,
                 !.fragment_retries = 3, !.socket_timeout = 45]

\* the test of line 151
IsProduction(env) == env.PRODUCTION = "true" \/ env.SERVER_ENVIRONMENT = "production"

get_advanced_ydl_opts(proxy_enabled, proxy_url, client_type, env) ==
    LET base == BaseOpts(client_type, env.cookies)
        proxied == IF proxy_enabled /\ proxy_url # None THEN ProxyUpdate(base, proxy_url)
                   ELSE base
    IN  IF IsProduction(env) THEN ProductionUpdate(proxied) ELSE proxied

\* values of the two variables line 151 reads, and whether the cookies file exists
Environs ==
    {[NoEnviron EXCEPT !.PRODUCTION = p, !.SERVER_ENVIRONMENT = s, !.cookies = c] :
        p \in {None, "true", "false"}, s \in {None, "production", "staging"},
        c \in BOOLEAN}

\* the strategy lists lines 183-202 can build
StrategyLists ==
    {DirectStrategies \o ProxyStrategies(working) :
        working \in {<<>>} \cup {<<PROXY_LIST[i]>> : i \in 1..Len(PROXY_LIST)}}

InitOptions ==
    /\ pc = "enumerate"
    /\ url = <<>>
    /\ use_proxy = TRUE
    /\ api_available = TRUE
    /\ Fresh
    /\ RouteIdle /\ ModelIdle /\ FormatterIdle
    /\ environ \in Environs
    /\ ydl_opts = NoOpts

\* lines 183-204 in one step: the list the probes' answers lead to
Enumerate ==
    /\ pc = "enumerate"
    /\ \E list \in StrategyLists :
          /\ strategies' = list
          /\ attempt' = 1
          /\ pc' = "attempt"
    /\ UNCHANGED <<request_vars, video_id, working_proxies, probed, video_title,
                   attempt_vars, title, fetched, probe_answers, result, attempted, calls,
                   fail_kinds, titles_seen, events, route_vars, options_vars, formatter_vars, model_vars>>

\* line 215 in one iteration of the strategy loop; here every attempt fails
\* and the loop goes on to the next strategy
BuildOptions ==
    /\ pc = "attempt"
    /\ attempt <= Len(strategies)
    /\ LET strategy == strategies[attempt]
       IN  ydl_opts' = Append(ydl_opts,
                              get_advanced_ydl_opts(strategy.proxy_enabled,
                                                    strategy.proxy_url,
                                                    strategy.client_type, environ))
    /\ attempt' = attempt + 1
    /\ UNCHANGED <<pc, request_vars, video_id, strategies, working_proxies, probed,
                   video_title, attempt_vars, title, fetched, probe_answers, result,
                   attempted, calls, fail_kinds, titles_seen, events, route_vars,
                   environ, model_vars, formatter_vars>>

NextOptions == Enumerate \/ BuildOptions

SpecOptions == InitOptions /\ [][NextOptions]_vars

(***************************************************************************)
(* app.py, extract_transcript_route, lines 112-203: one POST /extract      *)
(* with a JSON object as body.  The request runs Receive, then the steps   *)
(* of extract_transcript (Start, Probe, the attempts, the secondary        *)
(* backend), then Respond.                                                 *)
(***************************************************************************)
\* transcript_segments[:500]
SegmentCap == 500

\* items the secondary backend answers with beyond SegmentCap, at most
MaxOver == 1

LitWatchV == LitYoutubeCom \o <<"/", "w", "a", "t", "c", "h", "?">> \o LitVEq

\* position of the first occurrence of lit in s, 0 when there is none
FirstOcc(s, lit) ==
    IF \E i \in 1..Len(s) : LitAt(s, i, lit)
    THEN CHOOSE i \in 1..Len(s) : LitAt(s, i, lit) /\ \A j \in 1..(i - 1) : ~LitAt(s, j, lit)
    ELSE 0

\* s.split(lit)[0]
SplitFirst(s, lit) ==
    IF FirstOcc(s, lit) = 0 THEN s ELSE SubSeq(s, 1, FirstOcc(s, lit) - 1)

\* s.split(lit)[1], for an s that contains lit
SplitSecond(s, lit) ==
    SplitFirst(SubSeq(s, FirstOcc(s, lit) + Len(lit), Len(s)), lit)

\* lines 127-131: video_id
RouteVideoId(youtube_url) ==
    IF Contains(youtube_url, LitWatchV)
    THEN SomeList(SplitFirst(SplitSecond(youtube_url, LitVEq), <<"&">>))
    ELSE IF Contains(youtube_url, LitYoutuBe)
    THEN SomeList(SplitFirst(SplitSecond(youtube_url, LitYoutuBe), <<"?">>))
    ELSE NoneList

\* what int(float(.)) makes of the last two fields of a timestamp split at
\* ':', for the timestamps the parsers emit
ClockTable ==
    {[stamp |-> Pad(h, 2) \o ":" \o Pad(m, 2) \o ":" \o Pad(sec, 2) \o "." \o Pad(ms, 3),
      minutes |-> m, seconds |-> sec] :
        h \in ClockHours, m \in ClockMinutes, sec \in ClockSeconds,
        ms \in ClockThousandths}
    \cup {[stamp |-> "00:00:12.500", minutes |-> 0, seconds |-> 12],
          [stamp |-> "00:00:02.000", minutes |-> 0, seconds |-> 2],
          [stamp |-> "00:00:01.000", minutes |-> 0, seconds |-> 1],
          [stamp |-> "00:01:05.250", minutes |-> 1, seconds |-> 5]}

\* lines 158 and 163-175: display_time.  A segment without 'timestamp' gets
\* the default '00:00:00.000'; a timestamp without ':' gives "00:00"
DisplayTime(segment) ==
    LET timestamp == IF "timestamp" \in DOMAIN segment THEN segment.timestamp
                     ELSE <<"00:00:00.000">>
    IN  IF Len(timestamp) = 1 /\ \E r \in ClockTable : r.stamp = timestamp[1]
        THEN LET r == CHOOSE r \in ClockTable : r.stamp = timestamp[1]
             IN  Pad(r.minutes, 2) \o ":" \o Pad(r.seconds, 2)
        ELSE "00:00"

\* faulty variant: every segment is formatted
CappedAll(segments) == segments

\* transcript_segments[:500]
Capped(segments) ==
    SubSeq(segments, 1,
           IF Len(segments) < SegmentCap THEN Len(segments)
           ELSE SegmentCap)

\* lines 154-181: formatted_transcript
FormattedTranscript(segments) ==
    LET kept == Capped(segments)
    IN  SelectSeq([i \in 1..Len(kept) |->
                      [timestamp |-> DisplayTime(kept[i]), text |-> Strip(kept[i].text)]],
                  LAMBDA entry : entry.text # <<>>)

\* worlds of the attempts of a routed request: a success, and failures with
\* and without a title
RouteWorlds ==
    {World(FALSE, Info("ok", "Video A", ManualEn, NoDict), NetAllOk),
     World(FALSE, Info("ok", "Video A", NoDict, NoDict), NetAllOk),
     World(FALSE, InfoRaise, NetAllOk)}

\* an item of a long answer of the secondary backend; every seventh has
\* blank text
LongItem(i) ==
    [start |-> i * 1000, duration |-> 1000,
     text |-> IF i % 7 = 0 THEN <<" ">> ELSE <<ToString(i)>>]

\* answers of the secondary backend to a routed request: short ones, and long
\* ones of about SegmentCap items
RouteAltOutcomes ==
    {[status |-> "raise", items |-> <<>>],
     [status |-> "ok", items |-> <<[start |-> 0, duration |-> 2000, text |-> <<"hello">>],
                                   [start |-> 1500, duration |-> 500, text |-> <<" ">>]>>]}
    \cup {[status |-> "ok", items |-> [i \in 1..n |-> LongItem(i)]] :
            n \in (SegmentCap - 1)..(SegmentCap + MaxOver)}

RouteUrls ==
    {UrlWatch,
     <<" ">> \o UrlWatch \o <<" ">>,
     <<" ">>,
     HostShort \o IdA \o SuffixShare,
     HostYoutube \o PathShorts \o IdA,
     HostYoutube \o PathWatchLater \o IdA \o SuffixTime,
     UrlChannel}

InitRoute ==
    /\ pc = "request"
    /\ url \in RouteUrls
    /\ use_proxy = FALSE
    /\ api_available = TRUE
    /\ generate_summary \in BOOLEAN
    /\ response = NoResponse
    /\ Fresh
    /\ OptionsIdle /\ ModelIdle /\ FormatterIdle

\* lines 116-137: the body is read, an empty URL is answered at once,
\* otherwise extract_transcript is called with use_proxy = True
Receive ==
    /\ pc = "request"
    /\ url' = Strip(url)
    /\ IF url' = <<>>
       THEN /\ response' = [status |-> 400, success |-> FALSE, error |-> "no_url"]
            /\ pc' = "responded"
            /\ UNCHANGED use_proxy
       ELSE /\ use_proxy' = TRUE
            /\ pc' = "start"
            /\ UNCHANGED response
    /\ UNCHANGED <<api_available, video_id, strategies, working_proxies, probed, attempt,
                   video_title, attempt_vars, title, fetched, probe_answers, result,
                   attempted, calls, fail_kinds, titles_seen, events, generate_summary,
                   options_vars, formatter_vars, model_vars>>

RouteAttempt == pc = "attempt" /\ AttemptIn(RouteWorlds)

RouteAlternative == pc = "alt" /\ AlternativeIn(RouteAltOutcomes)

\* lines 141-196: the response built from the tuple extract_transcript
\* returned.  ai tells how generate_ai_summary went when it is called: the
\* text has fewer than 50 characters ("short"), the handle is there or gets
\* built ("built"), configure or the constructor raises ("raises")
Respond ==
    /\ pc = "done"
    /\ pc' = "responded"
    /\ IF ~Truthy(result.segments)
       THEN /\ response' = [status |-> 400, success |-> FALSE,
                            error |-> IF result.title # None THEN "no_captions_titled"
                                      ELSE "no_captions"]
            /\ UNCHANGED model_vars
       ELSE \E formatted \in {FormattedTranscript(result.segments.list)},
               ai \in {"short", "built", "raises"} :
               LET asked == generate_summary /\ formatted # <<>>
                   after == IF asked /\ ai # "short"
                            THEN GeminiAfterCall(gemini_model, environ.GEMINI_API_KEY,
                                                 ai = "built", constructions)
                            ELSE [model |-> gemini_model, count |-> constructions]
               IN  /\ asked \/ ai = "short"
                   /\ response' =
                         [status |-> 200, success |-> TRUE,
                          video_id |-> RouteVideoId(url),
                          video_title |-> IF result.title # None THEN result.title
                                          ELSE "Unknown Title",
                          transcript |-> formatted,
                          summary |-> IF asked THEN "generated" ELSE "",
                          total_segments |-> Len(formatted)]
                   /\ gemini_model' = after.model
                   /\ constructions' = after.count
                   /\ UNCHANGED callers
    /\ UNCHANGED <<request_vars, video_id, strategies, working_proxies, probed, attempt,
                   video_title, attempt_vars, title, fetched, probe_answers, result,
                   attempted, calls, fail_kinds, titles_seen, events, generate_summary,
                   options_vars, formatter_vars>>

NextRoute == Receive \/ Start \/ Probe \/ RouteAttempt \/ RouteAlternative \/ Respond

SpecRoute == InitRoute /\ [][NextRoute]_vars

(***************************************************************************)
(* format_as_paragraphs, lines 547-589.  A text is a sequence of           *)
(* one-character strings.                                                  *)
(***************************************************************************)
\* longest text given to the formatter
MaxText == 5

\* largest max_length given to the formatter
MaxWidth == 3

TextChars == {"a", "b", ".", " "}

SentenceSep == <<".", " ">>

\* text.split('. ')
RECURSIVE SplitSentences(_)
SplitSentences(s) ==
    IF FirstOcc(s, SentenceSep) = 0 THEN <<s>>
    ELSE <<SubSeq(s, 1, FirstOcc(s, SentenceSep) - 1)>>
             \o SplitSentences(SubSeq(s, FirstOcc(s, SentenceSep) + Len(SentenceSep), Len(s)))

\* lines 568-570: the period the split removed is put back, unless the
\* sentence ends with one or equals the last piece of the split
WithPeriod(sentence, sentences) ==
    IF sentence[Len(sentence)] # "." /\ sentence # sentences[Len(sentences)]
    THEN Append(sentence, ".") ELSE sentence

\* the loop of lines 562-580 from sentence k on, and lines 582-586
RECURSIVE ParagraphLoop(_, _, _, _, _)
ParagraphLoop(sentences, k, done, current_paragraph, width) ==
    IF k > Len(sentences)
    THEN (IF current_paragraph # <<>> THEN Append(done, Strip(current_paragraph)) ELSE done)
    ELSE IF Strip(sentences[k]) = <<>>
    THEN ParagraphLoop(sentences, k + 1, done, current_paragraph, width)
    ELSE LET sentence == WithPeriod(Strip(sentences[k]), sentences)
         IN  IF Len(current_paragraph) + Len(sentence) + 1 > width
                  /\ current_paragraph # <<>>
             THEN ParagraphLoop(sentences, k + 1, Append(done, Strip(current_paragraph)),
                                sentence, width)
             ELSE ParagraphLoop(sentences, k + 1, done,
                                IF current_paragraph # <<>>
                                THEN current_paragraph \o <<" ">> \o sentence
                                ELSE sentence,
                                width)

format_as_paragraphs(t, width) ==
    IF t = <<>> THEN <<>>
    ELSE ParagraphLoop(SplitSentences(t), 1, <<>>, <<>>, width)

FormatterTexts == UNION {[1..n -> TextChars] : n \in 0..MaxText}

InitFormatter ==
    /\ pc = "format"
    /\ url = <<>>
    /\ use_proxy = FALSE
    /\ api_available = TRUE
    /\ Fresh
    /\ RouteIdle /\ OptionsIdle /\ ModelIdle
    /\ text \in FormatterTexts
    /\ max_length \in 1..MaxWidth
    /\ paragraphs = <<>>

FormatParagraphs ==
    /\ pc = "format"
    /\ paragraphs' = format_as_paragraphs(text, max_length)
    /\ pc' = "formatted"
    /\ UNCHANGED <<request_vars, video_id, strategies, working_proxies, probed, attempt,
                   video_title, attempt_vars, title, fetched, probe_answers, result,
                   attempted, calls, fail_kinds, titles_seen, events, route_vars,
                   options_vars, model_vars, text, max_length>>

NextFormatter == FormatParagraphs

SpecFormatter == InitFormatter /\ [][NextFormatter]_vars

(***************************************************************************)
(* Properties                                                              *)
(***************************************************************************)
\* the URLs of the orchestration in which a marker is followed by an
\* identifier, and those in which none is
ResolvableUrls == {UrlWatch, UrlForeign}

UnresolvableUrls == {UrlChannel, <<>>}

\* every enumerated strategy was attempted and the last attempt failed too
PrimaryExhausted ==
    /\ strategies # <<>>
    /\ Len(attempted) = Len(strategies)
    /\ kind # "success"
    /\ result.by # "primary"

AttemptedInOrder ==
    /\ Len(attempted) <= Len(strategies)
    /\ \A i \in 1..Len(attempted) : attempted[i] = strategies[i]

\* C1: first-success short-circuit.  An attempt whose payload parses to at
\* least one segment ends the request at once with those segments: the
\* strategies attempted are exactly the first 'attempt' ones, none after the
\* successful one, and the secondary backend is never called.  When the first
\* strategy succeeds, extract_info and the parser were each called once.
C1_FirstSuccessShortCircuit ==
    /\ (attempted # <<>> /\ kind = "success") =>
          /\ pc = "done"
          /\ result.by = "primary"
          /\ result.segments = SomeList(transcript_segments)
          /\ transcript_segments # <<>>
    /\ result.by = "primary" =>
          /\ kind = "success"
          /\ Len(attempted) = attempt
          /\ AttemptedInOrder
          /\ calls.alt_call = 0 /\ calls.alt_lookup = 0
          /\ attempt = 1 => (calls.info = 1 /\ calls.parse = 1)

C1_Witness ==
    /\ result.by = "primary"
    /\ attempt = 1
    /\ ~strategies[1].proxy_enabled
    /\ Len(strategies) = 6
    /\ calls.info = 1 /\ calls.parse = 1

\* C2: every per-strategy failure (no metadata, no matching track, download
\* failed, zero segments parsed, an exception) moves on to the next strategy:
\* the loop is left early only by a success, the strategies are attempted in
\* enumeration order, and when strategy k succeeds after k-1 failures exactly
\* k strategies were attempted and the result is what strategy k parsed.
C2_FailuresTryNext ==
    /\ AttemptedInOrder
    /\ fail_kinds \subseteq {"config_error", "extract_raises", "no_info", "no_captions",
                             "download_failed", "parse_empty"}
    /\ pc = "attempt" => (~result.returned /\ Len(attempted) = attempt - 1)
    /\ (pc = "alt" /\ strategies # <<>>) => Len(attempted) = Len(strategies)
    /\ result.by = "primary" =>
          /\ Len(attempted) = attempt
          /\ attempted[attempt] = strategies[attempt]
          /\ ~result.segments.none
          /\ result.segments.list # <<>>
          /\ result.segments.list = parse_subtitle_content(subtitle_content)

C2_Witness ==
    /\ result.by = "primary"
    /\ attempt = 6
    /\ strategies[6].proxy_enabled
    /\ Cardinality(fail_kinds) = 5
    /\ {"extract_raises", "config_error", "no_captions"} \subseteq fail_kinds

\* C3: for a URL with a resolvable identifier, extract_transcript_alternative
\* is called (once) if and only if every enumerated primary strategy was
\* attempted and none succeeded; when the package is available the call sends
\* the lookup; and when the lookup returns at least one item the request
\* returns those items as its segments.
C3_SecondaryIffExhausted ==
    url \in ResolvableUrls =>
        /\ (url = UrlWatch /\ pc # "start") => video_id # NoId
        /\ calls.alt_call <= 1
        /\ calls.alt_call = 1 => PrimaryExhausted
        /\ pc = "done" => (calls.alt_call = 1 <=> PrimaryExhausted)
        /\ calls.alt_lookup = (IF api_available THEN calls.alt_call ELSE 0)
        /\ (pc = "done" /\ calls.alt_lookup = 1 /\ fetched.status = "ok"
               /\ fetched.items # <<>>) =>
              /\ result.by = "secondary"
              /\ ~result.segments.none
              /\ Len(result.segments.list) = Len(fetched.items)
              /\ \A i \in 1..Len(fetched.items) :
                    /\ result.segments.list[i].text = Strip(fetched.items[i].text)
                    /\ result.segments.list[i].start = fetched.items[i].start

C3_Witness ==
    /\ pc = "done"
    /\ result.by = "secondary"
    /\ Len(attempted) = 6
    /\ Len(result.segments.list) = 2

\* C4: when every primary strategy and the secondary backend fail, the title
\* returned is one obtained by some attempt whenever any attempt obtained one,
\* and None only if no attempt obtained a title.
C4_BestTitleReturned ==
    (pc = "done" /\ url \in ResolvableUrls /\ result.segments.none) =>
        /\ titles_seen # {} => result.title \in titles_seen
        /\ titles_seen = {} => result.title = None

\* C5: a URL without a recognizable identifier fails at once: no probe, no
\* metadata query, no subtitle download, no secondary lookup, no strategy is
\* enumerated or attempted, and the result is (None, None).
C5_InvalidReferenceImmediate ==
    url \in UnresolvableUrls =>
        /\ pc \in {"start", "alt", "done"}
        /\ video_id = NoId
        /\ calls.probe = 0 /\ calls.info = 0 /\ calls.download = 0 /\ calls.parse = 0
        /\ calls.alt_lookup = 0
        /\ strategies = <<>> /\ attempted = <<>> /\ probed = 0
        /\ pc = "done" => (result.returned /\ result.segments = NoneList
                              /\ result.title = None)

C5_Witness ==
    /\ pc = "done"
    /\ url = UrlChannel
    /\ api_available
    /\ calls.alt_call = 1

\* the shapes the resolver supports, with one valid identifier and a query
\* suffix that holds no further identifier
SupportedShapes ==
    {x \in UrlShapes :
        /\ x[3] \in {IdA, IdB}
        /\ x[4] \in {<<>>, SuffixTime, SuffixShare}
        /\ \/ x[1] \in {HostYoutube, HostMobile}
                 /\ x[2] \in {PathWatch, PathWatchLater, PathShorts, PathEmbed, PathV}
           \/ x[1] = HostShort /\ x[2] = <<>>}

\* supported shapes followed by a second identifier in a v= parameter
TwoIdShapes ==
    {x \in UrlShapes :
        /\ x[3] \in {IdA, IdB}
        /\ x[4] = SuffixSecondId
        /\ x[1] \in {HostYoutube, HostMobile}
        /\ x[2] \in {PathWatch, PathShorts, PathEmbed, PathV}}

MarkerLits == {LitVEq, LitYoutuBe, LitShorts, LitEmbed, LitV}

\* some marker of the patterns is followed by eleven identifier characters
HasMarkedId(u) ==
    \E i \in 1..Len(u) : \E lit \in MarkerLits : LitAt(u, i, lit) /\ IdAt(u, i + Len(lit))

\* C6: for every URL of a supported shape holding one valid identifier the
\* resolver returns that identifier; when the URL holds a second one the
\* first pattern of the list wins (its leftmost match); a URL in which no
\* marker is followed by eleven identifier characters resolves to None; and a
\* result is always eleven identifier characters of the URL that follow a
\* marker, never anything else.
C6_ResolverReturnsIdentifier ==
    pc = "resolved" =>
        /\ \A x \in SupportedShapes : url = UrlOf(x) => video_id = x[3]
        /\ \A x \in TwoIdShapes :
              url = UrlOf(x) =>
                  video_id = (IF x[2] \in {PathEmbed, PathV}
                              THEN SubSeq(SuffixSecondId, 4, Len(SuffixSecondId))
                              ELSE x[3])
        /\ ~HasMarkedId(url) => video_id = NoId
        /\ video_id # NoId =>
              /\ Len(video_id) = IdLen
              /\ \A k \in 1..Len(video_id) : video_id[k] \in IdChars
              /\ \E i \in 1..Len(url) : \E lit \in MarkerLits :
                    /\ LitAt(url, i, lit)
                    /\ LitAt(url, i + Len(lit), video_id)

C6_Witness ==
    /\ pc = "resolved"
    /\ url = HostYoutube \o PathShorts \o IdB \o SuffixShare
    /\ video_id = IdB

\* C7: the strategy list holds a proxy strategy only if use_proxy is set and
\* some probe answered; without use_proxy no probe is sent, and when every
\* probe fails the enumeration still completes with exactly the direct
\* strategies.
C7_ProxyOnlyIfHealthy ==
    LET healthy == \E j \in 1..Len(probe_answers) : probe_answers[j] = "answers"
    IN  /\ (\E i \in 1..Len(strategies) : strategies[i].proxy_enabled) =>
               (use_proxy /\ healthy)
        /\ (strategies # <<>> /\ pc # "probe" /\ (~use_proxy \/ ~healthy)) =>
               strategies = DirectStrategies
        /\ ~use_proxy => (calls.probe = 0 /\ pc # "probe")
        /\ pc = "probe" => probed < Len(PROXY_LIST)
        /\ calls.probe = Len(probe_answers)

C7_Witness ==
    /\ use_proxy
    /\ probe_answers = <<"raises", "raises">>
    /\ pc = "attempt"
    /\ strategies = DirectStrategies

\* positions in lang_priority of the languages a dictionary holds
PresentRanks(dict) == {i \in 1..Len(lang_priority) : lang_priority[i] \in DOMAIN dict}

\* C8: track selection.  A manual track of the first language of en, en-US,
\* en-GB, en-CA, en-AU that has one is selected; an automatic track (same
\* order) only if no manual track exists in any of the five; when neither
\* exists the attempt ends with 'no captions' and video_title still holds
\* the title of the metadata.
C8_TrackPrecedence ==
    (attempted # <<>> /\ world.info.status = "ok" /\ ~world.opts_raises) =>
        LET manual == PresentRanks(world.info.subtitles)
            auto == PresentRanks(world.info.automatic_captions)
        IN  /\ \A i \in manual :
                  (\A j \in manual : i <= j) =>
                      /\ subtitle_source = <<"manual", lang_priority[i]>>
                      /\ transcript_data = world.info.subtitles[lang_priority[i]]
            /\ \A i \in auto :
                  (manual = {} /\ \A j \in auto : i <= j) =>
                      /\ subtitle_source = <<"auto", lang_priority[i]>>
                      /\ transcript_data = world.info.automatic_captions[lang_priority[i]]
            /\ (subtitle_source # <<>> /\ subtitle_source[1] = "auto") => manual = {}
            /\ (manual = {} /\ auto = {}) =>
                  /\ kind = "no_captions"
                  /\ transcript_data = <<>>
                  /\ video_title = (IF world.info.title = MissingTitle
                                    THEN "Unknown Title" ELSE world.info.title)
                  /\ titles_seen = {video_title}

C8_Witness ==
    /\ attempted # <<>>
    /\ subtitle_source = <<"manual", "en-GB">>
    /\ "en-AU" \in DOMAIN world.info.subtitles
    /\ "en" \in DOMAIN world.info.automatic_captions

\* the accepted format of highest preference among those a track offers
BestOffered(track) ==
    LET ranks == {i \in 1..Len(AcceptedExts) :
                     \E k \in 1..Len(track) : track[k].ext = AcceptedExts[i] /\ track[k].url}
    IN  IF ranks = {} THEN None
        ELSE AcceptedExts[CHOOSE i \in ranks : \A j \in ranks : i <= j]

\* C9: when every format of the selected track answers 200 with a payload,
\* the payload downloaded is that of the highest-preference format offered
\* (vtt, srv3, srv2, srv1), whatever the order in which the track lists them.
C9_BestFormatDownloaded ==
    (/\ attempted # <<>>
     /\ transcript_data # <<>>
     /\ BestOffered(transcript_data) # None
     /\ \A e \in TrackExts(transcript_data) \cap AcceptedSet :
            world.net[e] = Response(200, PayVtt)) =>
        /\ requested # <<>>
        /\ requested[Len(requested)] = BestOffered(transcript_data)

\* the payload holds a <text element that carries a start attribute
HasTextStartElement(content) ==
    \E t \in ContentTokens(content) : XmlOpenName(t) = "text" /\ XmlStartAttr(t) # None

IsVttPayload(content) == \E t \in ContentTokens(content) : HasWebvtt(t) \/ HasArrow(t)

\* C10, as claimed: a payload with 'WEBVTT' or '-->' is parsed as WebVTT;
\* otherwise one holding a <text element with start= is parsed as timed-text
\* XML; otherwise the result is empty.
C10_DispatchAsClaimed ==
    pc = "parsed" =>
        /\ IsVttPayload(subtitle_content) =>
              transcript_segments = CleanSegments(parse_vtt_content(subtitle_content))
        /\ (~IsVttPayload(subtitle_content) /\ HasTextStartElement(subtitle_content)) =>
              transcript_segments = CleanSegments(parse_srv_content(subtitle_content))
        /\ (~IsVttPayload(subtitle_content) /\ ~HasTextStartElement(subtitle_content)) =>
              transcript_segments = <<>>

\* C10, amended: a payload with 'WEBVTT' or '-->' is parsed as WebVTT, also
\* when it holds a <text start= element; otherwise one holding the substring
\* '<text' and, anywhere, the substring 'start=' is parsed as timed-text XML;
\* otherwise the result is empty.
C10_Dispatch ==
    pc = "parsed" =>
        LET text_and_start ==
                /\ \E t \in ContentTokens(subtitle_content) : HasTextOpen(t)
                /\ \E t \in ContentTokens(subtitle_content) : HasStartEq(t)
        IN  /\ IsVttPayload(subtitle_content) =>
                  transcript_segments = CleanSegments(parse_vtt_content(subtitle_content))
            /\ (~IsVttPayload(subtitle_content) /\ text_and_start) =>
                  transcript_segments = CleanSegments(parse_srv_content(subtitle_content))
            /\ (~IsVttPayload(subtitle_content) /\ ~text_and_start) =>
                  transcript_segments = <<>>

C10_Witness ==
    /\ pc = "parsed"
    /\ IsVttPayload(subtitle_content)
    /\ HasTextStartElement(subtitle_content)
    /\ CleanSegments(parse_srv_content(subtitle_content)) # <<>>
    /\ transcript_segments = <<>>

\* the timestamps HH:MM:SS.mmm that occur in the payloads
TimestampTokens == {"00:00:01.000", "00:00:02.000", "00:01:05.250", "00:01:06.000"}

\* the runs of non-blank lines of a payload, in order
RECURSIVE BlankSeparated(_, _)
BlankSeparated(lines, cur) ==
    IF lines = <<>> THEN (IF cur = <<>> THEN <<>> ELSE <<cur>>)
    ELSE IF Strip(Head(lines)) = <<>>
         THEN (IF cur = <<>> THEN <<>> ELSE <<cur>>) \o BlankSeparated(Tail(lines), <<>>)
         ELSE BlankSeparated(Tail(lines), Append(cur, Head(lines)))

\* a time-range line: start timestamp, ' --> ', end timestamp, then nothing
\* or a space and cue settings
IsTimeRange(line) ==
    LET l == Strip(line)
    IN  /\ Len(l) >= 5
        /\ l[1] \in TimestampTokens /\ l[2] = " " /\ l[3] = "-->" /\ l[4] = " "
        /\ l[5] \in TimestampTokens
        /\ Len(l) > 5 => l[6] = " "
        /\ \A k \in 6..Len(l) : ~HasArrow(l[k])

\* a well-formed cue: a time-range line and one or more text lines under it
WellFormedCue(block) ==
    /\ Len(block) >= 2
    /\ IsTimeRange(block[1])
    /\ \A k \in 2..Len(block) : \A t \in LineTokens(block[k]) : ~HasArrow(t)

\* what a text line says once its markup tags are taken out
Spoken(line) == SelectSeq(Strip(line), LAMBDA t : ~IsTag(t))

\* the text lines of a cue that say something, tags taken out
RECURSIVE SpokenLines(_, _)
SpokenLines(block, k) ==
    IF k > Len(block) THEN <<>>
    ELSE (IF Spoken(block[k]) # <<>> THEN <<Spoken(block[k])>> ELSE <<>>)
             \o SpokenLines(block, k + 1)

RECURSIVE SpaceJoined(_)
SpaceJoined(ls) ==
    IF Len(ls) = 0 THEN <<>>
    ELSE IF Len(ls) = 1 THEN ls[1] ELSE ls[1] \o <<" ">> \o SpaceJoined(Tail(ls))

\* the blocks under the signature of a WebVTT payload
CuesOf(content) == Tail(BlankSeparated(content, <<>>))

\* a payload that is the signature followed by well-formed cues only
WellFormedVtt(content) ==
    /\ BlankSeparated(content, <<>>) # <<>>
    /\ Head(BlankSeparated(content, <<>>)) = << <<"WEBVTT">> >>
    /\ CuesOf(content) # <<>>
    /\ \A i \in 1..Len(CuesOf(content)) : WellFormedCue(CuesOf(content)[i])

\* the segments, one for each cue that says something, in the order of the cues
RECURSIVE CueSegments(_)
CueSegments(cues) ==
    IF cues = <<>> THEN <<>>
    ELSE (IF SpokenLines(Head(cues), 2) # <<>>
          THEN <<[timestamp |-> <<Strip(Head(cues)[1])[1]>>,
                  text |-> SpaceJoined(SpokenLines(Head(cues), 2))]>>
          ELSE <<>>) \o CueSegments(Tail(cues))

\* C11: WebVTT parsing.  A payload of well-formed cues (a time-range line, one
\* or more text lines, blank lines in between) parses to one segment for each
\* cue that has text, in the order of the cues, each with the start timestamp
\* of its cue as written and the cue's text lines, tags taken out, joined by
\* single spaces (a line that is markup only adds nothing to the text); a cue
\* whose text is markup only gives no segment.  So N cues with text give
\* exactly N segments.
C11_VttCuesToSegments ==
    (pc = "parsed" /\ WellFormedVtt(subtitle_content)) =>
        /\ parse_vtt_content(subtitle_content) = CueSegments(CuesOf(subtitle_content))
        /\ transcript_segments = CueSegments(CuesOf(subtitle_content))
        /\ (\A i \in 1..Len(CuesOf(subtitle_content)) :
                SpokenLines(CuesOf(subtitle_content)[i], 2) # <<>>)
               => Len(transcript_segments) = Len(CuesOf(subtitle_content))

\* two cues with text and different start times, the first with a markup-only
\* line above its text and the second with two lines of text
C11_Witness ==
    /\ pc = "parsed"
    /\ WellFormedVtt(subtitle_content)
    /\ Len(CuesOf(subtitle_content)) = 2
    /\ CuesOf(subtitle_content)[1] = <<CueLineIndented, LineMarkup, LineHello>>
    /\ CuesOf(subtitle_content)[2] = <<CueLine, LineHello, LineTagged>>
    /\ transcript_segments =
          <<[timestamp |-> <<"00:01:05.250">>, text |-> <<"hello">>],
            [timestamp |-> <<"00:00:01.000">>,
             text |-> <<"hello", " ", "hello", " ", "world">>]>>

TwoDigits(n) == IF n < 10 THEN "0" \o ToString(n) ELSE ToString(n)

ThreeDigits(n) ==
    IF n < 10 THEN "00" \o ToString(n) ELSE IF n < 100 THEN "0" \o ToString(n) ELSE ToString(n)

\* the payload is a document with one text element whose start is a value of
\* StartMillis
IsStartPayload(content) ==
    /\ Len(content) = 1
    /\ Len(content[1]) = 5
    /\ content[1][2] \in StartTags

StartOf(content) == (CHOOSE r \in StartTable : r.tag = content[1][2]).millis

\* C12: timestamp conversion.  A start value s, in seconds at millisecond
\* resolution, is emitted as HH:MM:SS.mmm with hours = floor(s / 3600),
\* minutes = floor((s mod 3600) / 60) and seconds = s mod 60 with three
\* decimals, each zero-padded: minutes and seconds are below 60 and the fields
\* add up to s again.
C12_TimestampFields ==
    /\ (/\ pc = "parsed"
        /\ subtitle_content =
              << <<"<transcript>", "<text start=\"12.5\">", "hi", "</text>", "</transcript>">> >>)
          => transcript_segments = <<[timestamp |-> <<"00:00:12.500">>, text |-> <<"hi">>]>>
    /\ (pc = "parsed" /\ IsStartPayload(subtitle_content)) =>
            LET s == StartOf(subtitle_content)
                hours == s \div 3600000
                minutes == (s % 3600000) \div 60000
                seconds == (s % 60000) \div 1000
                thousandths == s % 1000
            IN  /\ Len(transcript_segments) = 1
                /\ transcript_segments[1].timestamp =
                      <<TwoDigits(hours) \o ":" \o TwoDigits(minutes) \o ":"
                            \o TwoDigits(seconds) \o "." \o ThreeDigits(thousandths)>>
                /\ minutes < 60 /\ seconds < 60
                /\ hours * 3600000 + minutes * 60000 + seconds * 1000 + thousandths = s

\* one hour, 59 minutes and 59.999 seconds
C12_Witness ==
    /\ pc = "parsed"
    /\ IsStartPayload(subtitle_content)
    /\ StartOf(subtitle_content) = 7199999
    /\ subtitle_content[1][2] = "<text start=\"7199.999\">"
    /\ transcript_segments = <<[timestamp |-> <<"01:59:59.999">>, text |-> <<"hi">>]>>

\* C13: every segment of every result of extract_transcript, whichever
\* backend produced it, has text that is not empty once trimmed.
C13_NoBlankSegments ==
    (result.returned /\ ~result.segments.none) =>
        \A i \in 1..Len(result.segments.list) :
            Strip(result.segments.list[i].text) # <<>>

\* the texts of the segments that have text once trimmed, in order
SpokenTexts(segments) ==
    SelectSeq([i \in 1..Len(segments) |-> Strip(segments[i].text)], LAMBDA t : t # <<>>)

\* C14: segment cap.  The transcript of a response of /extract is built from
\* the first 500 segments the core returned and from no other, in their
\* order, so that it has at most 500 entries; the core returns every segment
\* it got from the parser or from the secondary backend.
C14_SegmentCap ==
    /\ (pc \in {"done", "responded"} /\ result.by = "primary") =>
          /\ result.segments.list = transcript_segments
          /\ result.segments.list = parse_subtitle_content(subtitle_content)
    /\ (pc \in {"done", "responded"} /\ result.by = "secondary") =>
          /\ Len(result.segments.list) = Len(fetched.items)
          /\ \A i \in 1..Len(fetched.items) :
                result.segments.list[i].start = fetched.items[i].start
    /\ (pc = "responded" /\ response.status = 200) =>
          LET first == IF Len(result.segments.list) <= SegmentCap THEN result.segments.list
                       ELSE [i \in 1..SegmentCap |-> result.segments.list[i]]
          IN  /\ Len(response.transcript) <= SegmentCap
              /\ [k \in 1..Len(response.transcript) |-> response.transcript[k].text]
                    = SpokenTexts(first)

\* the secondary backend answered with 501 items: the core returns 501
\* segments, the response ends with the 500th
C14_Witness ==
    /\ pc = "responded"
    /\ response.status = 200
    /\ Len(result.segments.list) = SegmentCap + 1
    /\ result.segments.list[SegmentCap + 1].text = <<"501">>
    /\ Len(response.transcript) = 429
    /\ response.transcript[429].text = <<"500">>

\* number of operations begun and not ended after the first n events
InFlight(n) ==
    Cardinality({i \in 1..n : events[i].phase = "begin"})
        - Cardinality({i \in 1..n : events[i].phase = "end"})

\* C15: one operation at a time.  Of the network operations of a request
\* (proxy probe, metadata query, subtitle download, secondary lookup) at most
\* one is in flight at any moment: each ends before the next begins and none
\* is pending when a step ends.  The operations of a step all belong to the
\* strategy attempted last, so the attempt of strategy k + 1 begins only
\* after the attempt of strategy k has finished, and the strategies are
\* attempted in the order enumerated.
C15_OneAtATime ==
    /\ \A n \in 0..Len(events) : InFlight(n) \in {0, 1}
    /\ InFlight(Len(events)) = 0
    /\ \A i \in 1..Len(events) :
          /\ events[i].phase = "end" =>
                (i > 1 /\ events[i - 1] = [events[i] EXCEPT !.phase = "begin"])
          /\ events[i].op \in {"info", "download"} =>
                (events[i].attempt = Len(attempted) /\ events[i].attempt >= 1)
          /\ events[i].op \in {"probe", "lookup"} => events[i].attempt = 0
    /\ AttemptedInOrder
    /\ pc = "attempt" => attempt = Len(attempted) + 1

\* the second strategy queried the metadata and sent two subtitle requests,
\* one after the other
C15_Witness ==
    /\ Len(attempted) = 2
    /\ Len(events) = 6
    /\ events[1] = Op("begin", "info", 2)
    /\ events[3] = Op("begin", "download", 2)
    /\ events[6] = Op("end", "download", 2)
    /\ calls.download >= 2

\* C16: the shared handle.  Whatever the interleaving of the requests of one
\* process, the language-model client is constructed at most once, every call
\* that returns a handle returns that one object, and the handle, once set,
\* is the first object constructed (never replaced by another).
C16_HandleConstructedOnce ==
    /\ constructions <= 1
    /\ gemini_model \in {NoModel, 1}
    /\ \A t \in DOMAIN callers : callers[t].returned \in {NoModel, 1}

\* C17: the strategy list with use_proxy.  Once the probes are done the list
\* is web, android, ios, tv over the direct network, followed, only when
\* some probe answered, by the first answering entry of PROXY_LIST with web
\* and then android; so direct strategies precede proxy strategies, one
\* endpoint at most appears and the list has 6 strategies at most.
FirstHealthy ==
    CHOOSE j \in 1..Len(probe_answers) :
        /\ probe_answers[j] = "answers"
        /\ \A i \in 1..(j - 1) : probe_answers[i] # "answers"

C17_StrategyList ==
    (use_proxy /\ pc \notin {"start", "probe"} /\ strategies # <<>>) =>
        /\ Len(strategies) <= 6
        /\ Len(probe_answers) = Len(PROXY_LIST)
        /\ SubSeq(strategies, 1, 4) =
               << [proxy_enabled |-> FALSE, proxy_url |-> None, client_type |-> "web"],
                  [proxy_enabled |-> FALSE, proxy_url |-> None, client_type |-> "android"],
                  [proxy_enabled |-> FALSE, proxy_url |-> None, client_type |-> "ios"],
                  [proxy_enabled |-> FALSE, proxy_url |-> None, client_type |-> "tv"] >>
        /\ IF \E j \in 1..Len(probe_answers) : probe_answers[j] = "answers"
           THEN SubSeq(strategies, 5, Len(strategies)) =
                   << [proxy_enabled |-> TRUE, proxy_url |-> PROXY_LIST[FirstHealthy],
                       client_type |-> "web"],
                      [proxy_enabled |-> TRUE, proxy_url |-> PROXY_LIST[FirstHealthy],
                       client_type |-> "android"] >>
           ELSE Len(strategies) = 4
        /\ \A i, j \in 1..Len(strategies) :
               (~strategies[i].proxy_enabled /\ strategies[j].proxy_enabled) => i < j
        /\ Cardinality({strategies[i].proxy_url : i \in 5..Len(strategies)}) <= 1

C17_Witness ==
    /\ use_proxy
    /\ probe_answers = <<"answers", "answers">>
    /\ pc = "attempt"
    /\ Len(strategies) = 6
    /\ strategies[6].proxy_url = PROXY_LIST[1]

\* C18: proxied against direct options.  Whatever PRODUCTION and
\* SERVER_ENVIRONMENT hold, the options built for a proxied strategy have a
\* longer socket timeout and a larger retry count than the options built for
\* a direct strategy of the same request.
C18_ProxiedMoreLenient ==
    \A i, j \in 1..Len(ydl_opts) :
        (ydl_opts[i].proxy = None /\ ydl_opts[j].proxy # None) =>
            /\ ydl_opts[j].socket_timeout > ydl_opts[i].socket_timeout
            /\ ydl_opts[j].retries > ydl_opts[i].retries

\* a payload that is the signature followed by blocks that each start with a
\* line holding '-->' and hold it nowhere else
CueShapedVtt(content) ==
    /\ BlankSeparated(content, <<>>) # <<>>
    /\ Head(BlankSeparated(content, <<>>)) = << <<"WEBVTT">> >>
    /\ \A i \in 1..Len(CuesOf(content)) :
          LET block == CuesOf(content)[i]
          IN  /\ \E t \in LineTokens(block[1]) : HasArrow(t)
              /\ \A k \in 2..Len(block) : \A t \in LineTokens(block[k]) : ~HasArrow(t)

\* C19: malformed cues.  In a WebVTT payload a line that holds '-->' without
\* a start and an end timestamp around it gives no segment, and the
\* well-formed cues before and after it are emitted, in order, as if the
\* malformed ones were not there.
C19_MalformedCuesSkipped ==
    (pc = "parsed" /\ CueShapedVtt(subtitle_content)) =>
        parse_vtt_content(subtitle_content) =
            CueSegments(SelectSeq(CuesOf(subtitle_content), WellFormedCue))

\* a timed-text document written one element per line: the opening tag of
\* the root, text elements, and the closing tag of the root when closed
ElemLinesOf(content, closed) == SubSeq(content, 2, Len(content) - (IF closed THEN 1 ELSE 0))

SrvDocShape(content, closed) ==
    /\ Len(content) >= (IF closed THEN 3 ELSE 2)
    /\ content[1] = <<"<transcript>">>
    /\ closed => content[Len(content)] = <<"</transcript>">>
    /\ \A k \in 1..Len(ElemLinesOf(content, closed)) :
          ElemLinesOf(content, closed)[k] \in TextElemLines

\* start attributes that are numbers, with the timestamp of each
StartClock(tag) ==
    CASE tag = "<text start=\"12.5\">" -> "00:00:12.500"
      [] tag = "<text start=\"2\">" -> "00:00:02.000"
      [] tag = "<text>" -> "00:00:00.000"
      [] OTHER -> None

\* the element lines that give a segment: numeric start, text not blank
GivesSegment(line) == StartClock(line[1]) # None /\ ~IsSpace(line[2])

ExpectedSrvSegments(lines) ==
    LET giving == SelectSeq(lines, GivesSegment)
    IN  [k \in 1..Len(giving) |->
            [timestamp |-> <<StartClock(giving[k][1])>>, text |-> <<giving[k][2]>>]]

\* C20: timed-text XML parsing.  In a document that parses, a text element
\* whose start attribute is no number gives no segment and every other text
\* element that has text gives its segment, in document order (a missing
\* start attribute counts as 0; an element whose text is blank gives none).
\* A document that does not parse, cut short or with a stray '<', gives the
\* empty sequence.
C20_NonNumericStartSkipped ==
    pc = "parsed" =>
        /\ (SrvDocShape(subtitle_content, TRUE)
              /\ \A k \in 2..(Len(subtitle_content) - 1) : subtitle_content[k] # ElemBroken)
             => /\ parse_srv_content(subtitle_content) =
                       ExpectedSrvSegments(ElemLinesOf(subtitle_content, TRUE))
                /\ SubtitleFormat(subtitle_content) = "srv" =>
                       transcript_segments =
                           ExpectedSrvSegments(ElemLinesOf(subtitle_content, TRUE))
        /\ (SrvDocShape(subtitle_content, TRUE)
              /\ \E k \in 2..(Len(subtitle_content) - 1) : subtitle_content[k] = ElemBroken)
             => (parse_srv_content(subtitle_content) = <<>> /\ transcript_segments = <<>>)
        /\ (SrvDocShape(subtitle_content, FALSE)
              /\ subtitle_content[Len(subtitle_content)] # <<"</transcript>">>)
             => (parse_srv_content(subtitle_content) = <<>> /\ transcript_segments = <<>>)

\* an element with a start that is no number between two elements that give
\* their segments
C20_Witness ==
    /\ pc = "parsed"
    /\ subtitle_content = << <<"<transcript>">>, ElemDecimal, ElemNonNumeric, ElemInteger,
                             <<"</transcript>">> >>
    /\ transcript_segments =
          <<[timestamp |-> <<"00:00:12.500">>, text |-> <<"hi">>],
            [timestamp |-> <<"00:00:02.000">>, text |-> <<"hello">>]>>

\* C21: eager probing.  With use_proxy every entry of PROXY_LIST has been
\* probed, and every probe has returned, before the first extract_info call
\* of the request is made; no probe follows an attempt, and the probes are
\* made also when the first direct strategy then succeeds.
C21_ProbesBeforeFetch ==
    /\ (use_proxy /\ (calls.info > 0 \/ attempted # <<>>)) =>
           /\ calls.probe = Len(PROXY_LIST)
           /\ Len(probe_answers) = Len(PROXY_LIST)
           /\ probed = Len(PROXY_LIST)
    /\ pc = "probe" => (calls.info = 0 /\ calls.download = 0 /\ attempted = <<>>)
    /\ (\E i \in 1..Len(events) : events[i].op = "probe") =>
           (calls.info = 0 /\ \A i \in 1..Len(events) : events[i].op = "probe")

\* both endpoints probed, then the first direct strategy succeeds
C21_Witness ==
    /\ use_proxy
    /\ pc = "done"
    /\ result.by = "primary"
    /\ Len(attempted) = 1
    /\ ~attempted[1].proxy_enabled
    /\ calls.probe = Len(PROXY_LIST)
    /\ calls.info = 1

\* the letters of a text, in order
Letters(t) == SelectSeq(t, LAMBDA c : c \notin {".", " "})

\* C22: bounded paragraphs.  For every text and every max_length each
\* paragraph format_as_paragraphs returns is at most max_length long, and the
\* paragraphs, one after the other, hold what the sentences of the text say,
\* in the order of the text.
C22_ParagraphsBounded ==
    pc = "formatted" =>
        /\ \A i \in 1..Len(paragraphs) : Len(paragraphs[i]) <= max_length
        /\ Letters(Flatten(paragraphs)) = Letters(text)

\* C23: the result of extract_transcript.  Every request ends by returning a
\* tuple, whatever the backends answer or raise, and the segments of the
\* tuple are None or a list that is not empty; they are None exactly when
\* neither backend gave segments.
C23_NoneOrNonEmpty ==
    /\ result.returned <=> pc = "done"
    /\ result.returned =>
           /\ result.segments = NoneList \/ (~result.segments.none /\ Len(result.segments.list) > 0)
           /\ ~Truthy(result.segments) <=> result.by = None
           /\ result.by \in {None, "primary", "secondary"}

\* every strategy raises and the secondary backend answers with an empty list
C23_Witness ==
    /\ pc = "done"
    /\ fail_kinds = {"extract_raises"}
    /\ fetched.status = "ok"
    /\ fetched.items = <<>>
    /\ result.segments = NoneList

\* minutes and seconds of a start time given in milliseconds, as MM:SS
MinutesSeconds(millis) ==
    Pad((millis \div 60000) % 60, 2) \o ":" \o Pad((millis \div 1000) % 60, 2)

\* C24: one shape for every segment.  Whichever backend gave them, the
\* segments extract_transcript returns carry a 'timestamp' field, and the
\* time the route displays for a segment is the start time of that segment,
\* not the default.
C24_TimestampFromStart ==
    response.status = 200 =>
        \A i \in 1..Len(result.segments.list) :
            LET segment == result.segments.list[i]
            IN  /\ "timestamp" \in DOMAIN segment
                /\ "start" \in DOMAIN segment =>
                       DisplayTime(segment) = MinutesSeconds(segment.start)

\* C25: the identifier in the response.  On every successful response the
\* video_id field is the identifier get_youtube_video_id resolves from the
\* URL of the request.
C25_RouteIdIsResolverId ==
    response.status = 200 =>
        /\ get_youtube_video_id(url) # NoId
        /\ response.video_id = SomeList(get_youtube_video_id(url))

\* C26: termination.  When every network call returns or times out the
\* request ends.  On the way the strategies attempted are the first ones of
\* the list, each once and in order, six at most; each entry of PROXY_LIST
\* is probed once at most; the secondary backend is called and looked up
\* once at most.
C26_Terminates ==
    /\ [](/\ Len(attempted) <= 6
          /\ Len(attempted) <= Len(strategies)
          /\ attempted = SubSeq(strategies, 1, Len(attempted))
          /\ calls.info <= Len(attempted)
          /\ calls.probe <= Len(PROXY_LIST)
          /\ calls.probe = probed
          /\ calls.alt_call <= 1
          /\ calls.alt_lookup <= 1)
    /\ <>(pc = "done" /\ result.returned)

\* six attempts and one lookup of the secondary backend, then the result
C26_Witness ==
    /\ pc = "done"
    /\ Len(attempted) = 6
    /\ calls.probe = Len(PROXY_LIST)
    /\ calls.alt_lookup = 1

====
